---- MODULE Spec2Model ----
(***************************************************************************)
(* Historical match, market impact, trade decision engine, pattern and     *)
(* correlation analysis and trade evaluator of the Terminal repository     *)
(* (historical_matcher.py, trade_picker.py, llm_event_query.py,            *)
(* evaluator.py).                                                          *)
(*                                                                         *)
(* Numbers.  Prices are positive integers.  A percentage is an integer in  *)
(* hundredths of a percent (1.5 % is 150), rounded towards minus infinity  *)
(* where the code's float is not a multiple of 0.01, so a negative move is *)
(* never rounded to zero.  A Python value that is either a float or a      *)
(* marker string ("N/A") is a record [isnum, num, str].                    *)
(* A dict key that is absent or null reads as NoVal, as dict.get does.     *)
(***************************************************************************)
EXTENDS Integers, Sequences, FiniteSets, TLC

VARIABLES
    \* Market Impact Analyzer (historical_matcher.py)
    df,                  \* closes of the rows the market-data provider returned
    impact_event,        \* the event handed to analyze_market_impact
    impact_data,         \* what analyze_market_impact returned
    \* Match Scorer (historical_matcher.py)
    classified_headline, \* the classified event
    historical_events,   \* the template store, in file order
    top_n,
    market,              \* provider: ticker -> closes of the fetched window
    scored_events,       \* match_similar_events: the (score, template) pairs kept by the loop
    top_events,          \* match_similar_events: the pairs selected after the sort
    results,             \* what match_similar_events returned
    \* Trade Decision Engine (trade_picker.py)
    historical_matches,  \* the match list handed to generate_trade_idea
    quote,               \* provider: current price, listed expiries, today's weekday
    trade_idea,          \* what generate_trade_idea returned
    \* Pattern Aggregator (llm_event_query.py)
    similar_events,      \* the event list handed to analyze_similar_events
    analysis,            \* what analyze_similar_events returned
    \* Correlation Engine (llm_event_query.py)
    data_points,         \* the macro data points handed to calculate_macro_correlations
    macro_correlations,  \* what calculate_macro_correlations returned
    macro_insights,      \* what generate_macro_insights returned
    \* Strike and expiry selection (trade_picker.py)
    strike_args,         \* the arguments of select_strike_price
    selected_strike,     \* what select_strike_price returned
    expiry_args,         \* the arguments of select_expiry_date, and today's weekday
    selected_expiry,     \* what select_expiry_date returned
    \* Trade Evaluator (evaluator.py)
    eval_trade,          \* the stored trade handed to evaluate_trade
    eval_df,             \* closes of the rows the provider returned for the evaluation window
    evaluation,          \* what evaluate_trade returned
    \* src/evaluation_runner.py: run_evaluation
    trade_history,       \* the trades of the input file
    evaluated_trades,    \* the evaluated trades of the output file
    now,                 \* the day run_evaluation runs on
    provider_rows,       \* the closes the provider returns for an evaluation window
    evaluate_calls,      \* the trades the last run called evaluate_trade for
    run_force,           \* the force flag of the last run
    metrics,             \* the last result of calculate_success_rate
    \* src/news_monitor.py
    latest_headlines,    \* the classified headlines, each with the opportunity it yields
    trading_opportunities, \* the opportunities of each time frame
    opportunity_lock,    \* the scan thread holding the lock, 0 when free
    scan_pc,             \* where each scan thread is, and the time frame it merges
    new_opportunities,   \* the opportunities each scan found
    current,             \* the bucket each scan read
    main_pc,             \* where the main loop is
    scan_thread,         \* the scan thread the main loop started last, 0 for none
    opportunities_file,  \* the contents of trading_opportunities.json
    \* src/trade_persistence.py
    trades_file,         \* the records of trade_recommendations.json
    saved_trade_idea,    \* the trade idea handed to the last save_trade_data
    save_result,         \* what the last save_trade_data returned
    \* src/llm_event_query.py: call_openai_with_retry
    max_retries,         \* the max_retries call_openai_with_retry was called with
    attempts,            \* call_openai_with_retry.attempts
    api_errors,          \* the errors the calls of the API raised, in order
    retry_result,        \* what call_openai_with_retry returned, or pending
    \* src/llm_event_query.py: conversation sessions
    CONVERSATION_SESSIONS, \* the sessions by id
    session_clock,       \* the time, in hours
    issued_sessions,     \* the number of session ids issued so far
    requested_session,   \* the session_id of the last process_query, 0 for None
    answered_session,    \* the session id the last process_query returned
    swept,               \* the last call of clean_old_sessions: its max_age_hours and result
    \* which operation ran last
    pc

impactVars == <<df, impact_event, impact_data>>
matcherVars == <<classified_headline, historical_events, top_n, market,
                 scored_events, top_events, results>>
vars == <<df, impact_event, impact_data,
          classified_headline, historical_events, top_n, market,
          scored_events, top_events, results,
          historical_matches, quote, trade_idea,
          similar_events, analysis,
          data_points, macro_correlations, macro_insights,
          strike_args, selected_strike, expiry_args, selected_expiry,
          eval_trade, eval_df, evaluation,
          trade_history, evaluated_trades, now, provider_rows, evaluate_calls, run_force,
          metrics,
          latest_headlines, trading_opportunities, opportunity_lock, scan_pc,
          new_opportunities, current, main_pc, scan_thread, opportunities_file,
          trades_file, saved_trade_idea, save_result,
          max_retries, attempts, api_errors, retry_result,
          CONVERSATION_SESSIONS, session_clock, issued_sessions, requested_session, answered_session, swept,
          pc>>
patternVars == <<similar_events, analysis>>
tradeVars == <<historical_matches, quote, trade_idea>>
batchVars == <<trade_history, evaluated_trades, now, provider_rows, evaluate_calls,
               run_force, metrics>>
monitorVars == <<latest_headlines, trading_opportunities, opportunity_lock, scan_pc,
                 new_opportunities, current, main_pc, scan_thread, opportunities_file>>
persistVars == <<trades_file, saved_trade_idea, save_result>>
retryVars == <<max_retries, attempts, api_errors, retry_result>>
sessionVars == <<CONVERSATION_SESSIONS, session_clock, issued_sessions, requested_session, answered_session, swept>>
serviceVars == <<sessionVars, retryVars, persistVars, monitorVars, batchVars>>
evalVars == <<eval_trade, eval_df, evaluation>>
selectVars == <<strike_args, selected_strike, expiry_args, selected_expiry>>
macroVars == <<data_points, macro_correlations, macro_insights>>

pipelineVars == <<impactVars, matcherVars, tradeVars, patternVars, macroVars, selectVars,
                  evalVars>>
----------------------------------------------------------------------------
(* Values *)

NoVal == "None"            \* a key whose value is null
Missing == "<missing>"     \* a key the dict does not hold

\* dict.get(key, default)
Get(v, default) == IF v = Missing THEN default ELSE v

Num(n) == [isnum |-> TRUE, num |-> n, str |-> ""]
Str(s) == [isnum |-> FALSE, num |-> 0, str |-> s]
NA == Str("N/A")
NAProcessingError == Str("N/A (processing error)")

Max(a, b) == IF a >= b THEN a ELSE b
Min(a, b) == IF a <= b THEN a ELSE b
Abs(a) == IF a < 0 THEN -a ELSE a

DEFAULT_TOP_N == 3
DEFAULT_ANALYSIS_DAYS == 7
DEFAULT_MARKET_TICKER == "SPY"
DEFAULT_EVALUATION_DAYS == 7

(* Bounds of the model *)
MaxRows == 8          \* rows a fetched window may hold (more than 7)
MaxTemplates == 3     \* templates in the store
MaxTopN == 3          \* largest top_n asked for
MaxMatches == 2       \* matches handed to generate_trade_idea on its own
MaxSimilar == 4       \* events handed to analyze_similar_events
MaxPoints == 4        \* macro data points handed to the Correlation Engine
MaxLong == 201        \* events of a long, nearly unanimous list
MaxPrice == 1200      \* largest current price handed to select_strike_price, in tenths
MaxExpiries == 4      \* expiries the provider lists
MaxEvalRows == 4      \* rows of an evaluation window

\* Closing prices the provider may report.
Closes == {90, 95, 100, 110}

----------------------------------------------------------------------------
(* Market Impact Analyzer *)

\* ((a / b) - 1.0) * 100, in hundredths of a percent.
PctChange(a, b) == ((a - b) * 10000) \div b

\* A drawdown walk that measures every close against the first close and
\* never raises the peak.
RECURSIVE DrawdownWalk_StalePeak(_, _, _, _)
DrawdownWalk_StalePeak(closes, i, peak, max_drawdown) ==
    IF i > Len(closes) THEN max_drawdown
    ELSE DrawdownWalk_StalePeak(closes, i + 1, peak,
                                Min(max_drawdown, ((closes[i] - peak) * 10000) \div peak))

RECURSIVE DrawdownWalk(_, _, _, _)
DrawdownWalk(closes, i, peak, max_drawdown) ==
    IF i > Len(closes) THEN max_drawdown
    ELSE LET newpeak == Max(peak, closes[i])
             current_drawdown == PctChange(closes[i], newpeak)
         IN DrawdownWalk(closes, i + 1, newpeak, Min(max_drawdown, current_drawdown))

\* <<overall_change_pct, max_drawdown_pct>>
calculate_drop_percentage(closes) ==
    IF Len(closes) < 2 THEN <<0, 0>>
    ELSE <<PctChange(closes[Len(closes)], closes[1]),
           DrawdownWalk(closes, 2, closes[1], 0)>>

\* standardize_ticker: upper-cases, maps the common crypto symbols to the
\* provider's suffix form.  A null ticker has no .upper(): it raises.
standardize_ticker(ticker) ==
    IF ticker = "BTC" THEN "BTC-USD" ELSE ticker

MarketTickers == {"SPY", "BTC-USD"}

\* fetch_market_data: the closes of the rows the provider returns for the
\* window; every provider error is caught inside and reads as no rows.
fetch_market_data(ticker, mkt) ==
    LET t == standardize_ticker(ticker)
    IN IF t \in DOMAIN mkt THEN mkt[t] ELSE <<>>

IsoDates == {"2023-09-20", "2020-03-03"}

NoPriceData == [present |-> FALSE, start_price |-> 0, end_price |-> 0, trading_days |-> 0]

ImpactNA ==
    [raised |-> FALSE, price_change_pct |-> NA, max_drawdown_pct |-> NA,
     date_range |-> "N/A", price_data |-> NoPriceData]

ImpactRaised ==
    [raised |-> TRUE, price_change_pct |-> NA, max_drawdown_pct |-> NA,
     date_range |-> "N/A", price_data |-> NoPriceData]

\* A window that is never cut to the analysis days.
Head7_KeepsAll(rows) == rows

Head7(rows) ==
    IF Len(rows) > DEFAULT_ANALYSIS_DAYS THEN SubSeq(rows, 1, DEFAULT_ANALYSIS_DAYS) ELSE rows

analyze_market_impact(event, mkt) ==
    LET ticker == Get(event.affected_ticker, DEFAULT_MARKET_TICKER)
        event_date == Get(event.event_date, "")
    IN
    IF event_date = NoVal \/ event_date = "" THEN ImpactNA
    ELSE IF event_date \notin IsoDates THEN ImpactNA     \* ValueError of strptime
    ELSE IF ticker = NoVal THEN ImpactRaised             \* None.upper() in standardize_ticker
    ELSE LET rows == fetch_market_data(ticker, mkt)
         IN IF rows = <<>> THEN ImpactNA
            ELSE LET stats == calculate_drop_percentage(Head7(rows))
                 IN [raised |-> FALSE,
                     price_change_pct |-> Num(stats[1]),
                     max_drawdown_pct |-> Num(stats[2]),
                     date_range |-> "start to end",
                     price_data |-> [present |-> TRUE,
                                     start_price |-> rows[1],
                                     end_price |-> rows[Len(rows)],
                                     trading_days |-> Len(rows)]]

Template(id, ty, se, sec, tk, dt) ==
    [event_summary |-> id, event_type |-> ty, sentiment |-> se, sector |-> sec,
     affected_ticker |-> tk, event_date |-> dt]

\* A classified headline.  The event tags read False when absent; a yield
\* of the macro snapshot that is absent reads 0 (None and 0.0 are both
\* falsy where the yields are used); direction is the classifier's
\* BUY/SELL recommendation.
TaggedHeadline(ty, se, sec, cpi, surprise, t2y, t10y, dir) ==
    [event_type |-> ty, sentiment |-> se, sector |-> sec,
     is_cpi_week |-> cpi, surprise_positive |-> surprise,
     Treasury2Y |-> t2y, Treasury10Y |-> t10y, direction |-> dir]

Headline(ty, se, sec) == TaggedHeadline(ty, se, sec, FALSE, FALSE, 0, 0, Missing)

\* The event the Market Impact Analyzer is driven with on its own.
SpyEvent == Template("spy", "Monetary Policy", "Bullish", "Financials", "SPY", "2023-09-20")

----------------------------------------------------------------------------
(* Market Impact Analyzer on its own: the provider returns any window of   *)
(* closes, then analyze_market_impact runs on it.                          *)

IdleStore ==
    /\ historical_events = <<>>
    /\ top_n = DEFAULT_TOP_N
    /\ market = [t \in MarketTickers |-> <<>>]
    /\ scored_events = <<>>
    /\ top_events = <<>>
    /\ results = <<>>

NoQuote == [current_price |-> 0, expiry_dates |-> <<>>, weekday |-> 0]

NoTradeIdea ==
    [raised |-> FALSE, ticker |-> NoVal, trade_type |-> "", direction |-> "",
     option_type |-> NoVal, strike |-> Str(NoVal), expiry |-> Str(NoVal), rationale |-> "",
     calls |-> <<>>]

IdleMatcher ==
    /\ classified_headline = Headline(NoVal, NoVal, NoVal)
    /\ IdleStore

IdleTrade ==
    /\ historical_matches = <<>>
    /\ quote = NoQuote
    /\ trade_idea = NoTradeIdea

NoAnalysis ==
    [success |-> FALSE, message |-> "", pattern |-> "", volatility |-> "",
     consistency_score |-> 0, avg_price_change |-> 0, avg_max_drawdown |-> 0,
     bullish_pct |-> 0, bearish_pct |-> 0, similar_events_count |-> 0,
     has_macro_analysis |-> FALSE, events_with_macro |-> 0,
     has_sentiment_analysis |-> FALSE, events_with_sentiment |-> 0,
     sentiment_alignment_pct |-> 0]

IdlePattern ==
    /\ similar_events = <<>>
    /\ analysis = NoAnalysis

Factors == <<"cpi", "fed_rate", "unemployment", "yield_curve">>

NoCorrelation ==
    [correlation_sign |-> 0, strength |-> "None", sample_size |-> 0, direction |-> Missing]

\* The initial value of calculate_macro_correlations' result.
NoCorrelations == [f \in {"cpi", "fed_rate", "unemployment", "yield_curve"} |-> NoCorrelation]

IdleMacro ==
    /\ data_points = <<>>
    /\ macro_correlations = NoCorrelations
    /\ macro_insights = <<>>

NoStrikeArgs == [current_price |-> 1, option_type |-> "CALL", price_change_pct |-> 0]

NoExpiryArgs == [expiry_dates |-> <<>>, min_days |-> 7, max_days |-> 30, weekday |-> 0]

IdleSelect ==
    /\ strike_args = NoStrikeArgs
    /\ selected_strike = 0
    /\ expiry_args = NoExpiryArgs
    /\ selected_expiry = 0

StoredTrade(ticker, option_type) == [ticker |-> ticker, option_type |-> option_type]

\* Lines 226-232: the result evaluate_trade starts from.  The moves are in
\* hundredths of a percent, as round(x, 2) leaves them.
InitialEvaluation ==
    [actual_move_pct |-> 0, max_drawdown_pct |-> 0, trade_direction_correct |-> FALSE,
     notes |-> "Could not evaluate trade - insufficient data", evaluation_period |-> 0]

IdleEval ==
    /\ eval_trade = StoredTrade(NoVal, NoVal)
    /\ eval_df = <<>>
    /\ evaluation = InitialEvaluation

\* The result of calculate_success_rate for no trades (lines 345-353).
NoMetrics ==
    [raised |-> FALSE, total_trades |-> 0, successful_trades |-> 0, success_rate |-> 0]

IdleBatch ==
    /\ trade_history = <<>>
    /\ evaluated_trades = <<>>
    /\ now = 0
    /\ provider_rows = <<>>
    /\ evaluate_calls = <<>>
    /\ run_force = FALSE
    /\ metrics = NoMetrics

TIME_FRAMES == <<"short", "medium", "long">>

\* Lines 48-52: no opportunities yet.
NoOpportunities == [time_frame \in {"short", "medium", "long"} |-> <<>>]

NoFile == [written |-> FALSE, contents |-> NoOpportunities]

IdleMonitor ==
    /\ latest_headlines = <<>>
    /\ trading_opportunities = NoOpportunities
    /\ opportunity_lock = 0
    /\ scan_pc = <<>>
    /\ new_opportunities = <<>>
    /\ current = <<>>
    /\ main_pc = "loop"
    /\ scan_thread = 0
    /\ opportunities_file = NoFile

\* A TradeIdea as the trade engine emits it.
TradeIdea(ticker, trade_type, direction, option_type, strike, expiry, rationale) ==
    [ticker |-> ticker, trade_type |-> trade_type, direction |-> direction,
     option_type |-> option_type, strike |-> strike, expiry |-> expiry,
     rationale |-> rationale]

NoIdea == TradeIdea(NoVal, NoVal, NoVal, NoVal, Str(NoVal), Str(NoVal), NoVal)

IdlePersist ==
    /\ trades_file = <<>>
    /\ saved_trade_idea = NoIdea
    /\ save_result = FALSE

MAX_RETRIES == 3

IdleRetry ==
    /\ max_retries = MAX_RETRIES
    /\ attempts = 0
    /\ api_errors = <<>>
    /\ retry_result = "pending"

NotSwept == [max_age_hours |-> 0, expired |-> 0]

IdleSessions ==
    /\ CONVERSATION_SESSIONS = <<>>
    /\ session_clock = 0
    /\ issued_sessions = 0
    /\ requested_session = 0
    /\ answered_session = 0
    /\ swept = NotSwept

IdleServices ==
    /\ IdleSessions
    /\ IdleRetry
    /\ IdlePersist
    /\ IdleMonitor
    /\ IdleBatch

IdleImpact ==
    /\ df = <<>>
    /\ impact_event = SpyEvent
    /\ impact_data = ImpactNA

InitImpact ==
    /\ IdleImpact
    /\ IdleServices
    /\ IdleEval
    /\ IdleSelect
    /\ IdleMacro
    /\ IdlePattern
    /\ IdleMatcher
    /\ IdleTrade
    /\ pc = "fetch"

ProviderReturnsRow ==
    /\ pc = "fetch"
    /\ Len(df) < MaxRows
    /\ \E c \in Closes : df' = Append(df, c)
    /\ UNCHANGED <<impact_event, impact_data, matcherVars, tradeVars, patternVars, serviceVars, evalVars, selectVars, macroVars, pc>>

AnalyzeMarketImpact ==
    /\ pc = "fetch"
    /\ impact_data' = analyze_market_impact(impact_event, [t \in {"SPY"} |-> df])
    /\ pc' = "analyzed"
    /\ UNCHANGED <<df, impact_event, matcherVars, tradeVars, patternVars, serviceVars, evalVars, selectVars, macroVars>>

NextImpact == ProviderReturnsRow \/ AnalyzeMarketImpact

SpecImpact == InitImpact /\ [][NextImpact]_vars

NonDecreasing(closes) ==
    \A i \in 1..(Len(closes) - 1) : closes[i] <= closes[i + 1]

\* C5: when the fetched series is empty or has exactly one row, the result
\* of analyze_market_impact carries the explicit no-data value in
\* price_change_pct and max_drawdown_pct, never a number.
C5_NoNumberBelowTwoPoints ==
    (pc = "analyzed" /\ Len(df) < 2) =>
        /\ ~impact_data.price_change_pct.isnum
        /\ ~impact_data.max_drawdown_pct.isnum

\* C10: for a series of at least 2 positive closes, the max_drawdown_pct
\* that calculate_drop_percentage returns is <= 0, and it is 0 exactly when
\* the closes it was given (the first 7 rows) are non-decreasing.
C10_DrawdownSign ==
    (pc = "analyzed" /\ Len(df) >= 2) =>
        /\ impact_data.max_drawdown_pct.isnum
        /\ impact_data.max_drawdown_pct.num <= 0
        /\ (impact_data.max_drawdown_pct.num = 0 <=> NonDecreasing(Head7(df)))

\* A window that dips below its peak and ends above its first close.
C10_Witness ==
    /\ pc = "analyzed"
    /\ Len(df) >= 3
    /\ impact_data.max_drawdown_pct.isnum
    /\ impact_data.max_drawdown_pct.num < 0
    /\ impact_data.price_change_pct.num > 0

SetMax(S) == CHOOSE x \in S : \A y \in S : y <= x
SetMin(S) == CHOOSE x \in S : \A y \in S : x <= y

\* C11: for a fetched series of at least one row, with k = min(rows, 7),
\* price_change_pct is the change from close[1] to close[k] and
\* max_drawdown_pct is the minimum over i <= k of the change from the
\* highest close of 1..i to close[i]; rows after the 7th change neither.
\* Closes [100, 95, 90, 110] give 10.0 and -10.0.
C11_FirstSevenCloses ==
    (pc = "analyzed" /\ Len(df) >= 1) =>
        LET k == Min(Len(df), 7)
        IN /\ impact_data.price_change_pct = Num(PctChange(df[k], df[1]))
           /\ impact_data.max_drawdown_pct =
                 Num(SetMin({ PctChange(df[i], SetMax({ df[j] : j \in 1..i })) : i \in 1..k }))
           /\ (df = <<100, 95, 90, 110>> =>
                 /\ impact_data.price_change_pct = Num(1000)
                 /\ impact_data.max_drawdown_pct = Num(-1000))

\* An eighth row lower than every close of the first seven has been analyzed.
C11_Witness ==
    /\ pc = "analyzed"
    /\ Len(df) = 8
    /\ \A i \in 1..7 : df[i] > df[8]
    /\ impact_data.price_change_pct.isnum

----------------------------------------------------------------------------
(* Match Scorer.  Scores are in tenths: 0.5 is 5, 0.3 is 3, 0.2 is 2.      *)

\* A score written with elif: only the first matching criterion counts.
calculate_match_score_FirstMatchOnly(headline, template) ==
    IF Get(headline.event_type, NoVal) = Get(template.event_type, NoVal) THEN 5
    ELSE IF Get(headline.sentiment, NoVal) = Get(template.sentiment, NoVal) THEN 3
    ELSE IF Get(headline.sector, NoVal) = Get(template.sector, NoVal) THEN 2
    ELSE 0

calculate_match_score(headline, template) ==
      (IF Get(headline.event_type, NoVal) = Get(template.event_type, NoVal) THEN 5 ELSE 0)
    + (IF Get(headline.sentiment, NoVal) = Get(template.sentiment, NoVal) THEN 3 ELSE 0)
    + (IF Get(headline.sector, NoVal) = Get(template.sector, NoVal) THEN 2 ELSE 0)

\* The scoring loop: one (score, template) pair per template that scores
\* above 0, the template kept by its place in the store.
RECURSIVE ScoreLoop(_, _, _, _)
ScoreLoop(headline, events, i, acc) ==
    IF i > Len(events) THEN acc
    ELSE LET score == calculate_match_score(headline, events[i])
         IN ScoreLoop(headline, events, i + 1,
                      IF score > 0 THEN Append(acc, [score |-> score, idx |-> i]) ELSE acc)

\* A descending sort that puts a pair before the pairs of equal score.
RECURSIVE SortByScoreDesc_ReversesTies(_, _)
SortByScoreDesc_ReversesTies(pairs, acc) ==
    IF pairs = <<>> THEN acc
    ELSE LET x == Head(pairs)
             k == Cardinality({j \in 1..Len(acc) : acc[j].score > x.score})
         IN SortByScoreDesc_ReversesTies(Tail(pairs),
                SubSeq(acc, 1, k) \o <<x>> \o SubSeq(acc, k + 1, Len(acc)))

\* list.sort(reverse=True, key=score): descending and stable, a pair goes
\* after every pair already placed whose score is at least its own.
RECURSIVE SortByScoreDesc(_, _)
SortByScoreDesc(pairs, acc) ==
    IF pairs = <<>> THEN acc
    ELSE LET x == Head(pairs)
             k == Cardinality({j \in 1..Len(acc) : acc[j].score >= x.score})
         IN SortByScoreDesc(Tail(pairs),
                SubSeq(acc, 1, k) \o <<x>> \o SubSeq(acc, k + 1, Len(acc)))

\* seq[:n]
SliceTo(seq, n) ==
    IF n >= 0 THEN SubSeq(seq, 1, Min(n, Len(seq)))
    ELSE SubSeq(seq, 1, Max(0, Len(seq) + n))

\* One iteration of the result loop: the try body, or the except body when
\* analyze_market_impact raised.
ResultEntry(score, event, mkt) ==
    LET impact_data_ == analyze_market_impact(event, mkt)
    IN IF impact_data_.raised
       THEN [event_summary |-> Get(event.event_summary, ""),
             match_score |-> score,
             affected_ticker |-> Get(event.affected_ticker, DEFAULT_MARKET_TICKER),
             price_change_pct |-> NAProcessingError,
             max_drawdown_pct |-> NAProcessingError,
             event_date |-> Get(event.event_date, ""),
             date_range |-> "N/A",
             price_data |-> NoPriceData]
       ELSE [event_summary |-> Get(event.event_summary, ""),
             match_score |-> score,
             affected_ticker |-> Get(event.affected_ticker, DEFAULT_MARKET_TICKER),
             price_change_pct |-> impact_data_.price_change_pct,
             max_drawdown_pct |-> impact_data_.max_drawdown_pct,
             event_date |-> Get(event.event_date, ""),
             date_range |-> impact_data_.date_range,
             price_data |-> impact_data_.price_data]

\* A result loop that leaves out the templates whose impact computation raised.
RECURSIVE BuildResults_DropsFailed(_, _, _)
BuildResults_DropsFailed(top, events, mkt) ==
    IF top = <<>> THEN <<>>
    ELSE LET e == events[Head(top).idx]
             rest == BuildResults_DropsFailed(Tail(top), events, mkt)
         IN IF analyze_market_impact(e, mkt).raised THEN rest
            ELSE <<ResultEntry(Head(top).score, e, mkt)>> \o rest

RECURSIVE BuildResults(_, _, _)
BuildResults(top, events, mkt) ==
    IF top = <<>> THEN <<>>
    ELSE <<ResultEntry(Head(top).score, events[Head(top).idx], mkt)>>
         \o BuildResults(Tail(top), events, mkt)

(* The inputs of the Match Scorer *)

TemplatePool ==
    { Template("fed-pause", "Monetary Policy", "Bullish", "Financials", "SPY", "2023-09-20"),
      Template("fed-cut", "Monetary Policy", "Bearish", "Technology", "BTC", "2020-03-03"),
      Template("bank-earnings", "Earnings", "Bullish", "Financials", Missing, "20/09/2023"),
      Template("untyped", Missing, "Bullish", NoVal, NoVal, "2023-09-20"),
      Template("tech-earnings", "Earnings", "Bearish", "Technology", "SPY", Missing),
      Template("fed-hike", "Monetary Policy", "Bullish", "Technology", "SPY", "2023-09-20") }

Headlines ==
    { Headline("Monetary Policy", "Bullish", "Financials"),
      Headline("Earnings", "Bearish", "Technology"),
      Headline(Missing, "Bullish", NoVal),
      Headline(Missing, "Bearish", Missing) }

Markets ==
    { [t \in MarketTickers |-> IF t = "SPY" THEN spy ELSE <<100, 110>>] :
        spy \in {<<>>, <<100>>, <<100, 90, 110>>} }

InitMatcher ==
    /\ IdleImpact
    /\ IdleServices
    /\ IdleEval
    /\ IdleSelect
    /\ IdleMacro
    /\ IdlePattern
    /\ IdleTrade
    /\ classified_headline \in Headlines
    /\ top_n \in 0..MaxTopN
    /\ market \in Markets
    /\ historical_events = <<>>
    /\ scored_events = <<>>
    /\ top_events = <<>>
    /\ results = <<>>
    /\ pc = "load"

\* The template file holds one more template.
TemplateStored ==
    /\ pc = "load"
    /\ Len(historical_events) < MaxTemplates
    /\ \E t \in TemplatePool : historical_events' = Append(historical_events, t)
    /\ UNCHANGED <<impactVars, serviceVars, evalVars, selectVars, macroVars, patternVars, tradeVars, classified_headline, top_n, market,
                   scored_events, top_events, results, pc>>

MatchSimilarEvents ==
    /\ pc = "load"
    /\ IF historical_events = <<>>
       THEN /\ results' = <<>>
            /\ UNCHANGED <<scored_events, top_events>>
       ELSE LET scored == ScoreLoop(classified_headline, historical_events, 1, <<>>)
                top == SliceTo(SortByScoreDesc(scored, <<>>), top_n)
            IN /\ scored_events' = scored
               /\ top_events' = top
               /\ results' = BuildResults(top, historical_events, market)
    /\ pc' = "matched"
    /\ UNCHANGED <<impactVars, serviceVars, evalVars, selectVars, macroVars, patternVars, tradeVars, classified_headline, historical_events,
                   top_n, market>>

NextMatcher == TemplateStored \/ MatchSimilarEvents

SpecMatcher == InitMatcher /\ [][NextMatcher]_vars

(* Claims about the Match Scorer *)

Categorical == {"event_type", "sentiment", "sector"}

\* The criteria on which the headline and the template read equal.
MatchingCriteria(headline, template) ==
    {c \in Categorical : Get(headline[c], NoVal) = Get(template[c], NoVal)}

\* The score the loop gave the template at place i of the store (0 when the
\* loop did not keep it).
ScoreGiven(i) ==
    IF \E k \in 1..Len(scored_events) : scored_events[k].idx = i
    THEN (CHOOSE p \in {scored_events[k] : k \in 1..Len(scored_events)} : p.idx = i).score
    ELSE 0

SelectedPlaces == {top_events[i].idx : i \in 1..Len(top_events)}

\* C6: the result has exactly one entry per selected template, in selection
\* order; an entry whose impact computation raised keeps event_summary,
\* match_score and ticker and marks the impact fields unavailable; every
\* other entry carries what analyze_market_impact gives for its template
\* alone.
C6_PerItemFailure ==
    (pc = "matched" /\ historical_events # <<>>) =>
        /\ Len(results) = Len(top_events)
        /\ \A i \in 1..Len(top_events) :
              LET e == historical_events[top_events[i].idx]
                  alone == analyze_market_impact(e, market)
              IN /\ i <= Len(results)
                 /\ results[i].event_summary = Get(e.event_summary, "")
                 /\ results[i].match_score = top_events[i].score
                 /\ results[i].affected_ticker = Get(e.affected_ticker, DEFAULT_MARKET_TICKER)
                 /\ alone.raised =>
                        /\ results[i].price_change_pct = NAProcessingError
                        /\ results[i].max_drawdown_pct = NAProcessingError
                 /\ ~alone.raised =>
                        /\ results[i].price_change_pct = alone.price_change_pct
                        /\ results[i].max_drawdown_pct = alone.max_drawdown_pct
                        /\ results[i].price_data = alone.price_data

\* A failing template ranked before a template with a numeric impact.
C6_Witness ==
    /\ pc = "matched"
    /\ \E i, j \in 1..Len(results) :
          /\ i < j
          /\ results[i].price_change_pct = NAProcessingError
          /\ results[j].price_change_pct.isnum

\* C7: the result holds no template of score 0, has length <= top_n, is
\* ordered by non-increasing match_score with equal scores in store order,
\* and no omitted template scores higher than a returned one.
C7_RankedTopN ==
    (pc = "matched") =>
        /\ Len(results) <= top_n
        /\ Len(results) = Len(top_events)
        /\ \A i \in 1..Len(results) :
              /\ results[i].match_score > 0
              /\ results[i].match_score =
                     calculate_match_score(classified_headline,
                                           historical_events[top_events[i].idx])
              /\ results[i].event_summary =
                     Get(historical_events[top_events[i].idx].event_summary, "")
        /\ \A i, j \in 1..Len(results) :
              i < j =>
                 /\ results[i].match_score >= results[j].match_score
                 /\ top_events[i].idx # top_events[j].idx
                 /\ results[i].match_score = results[j].match_score
                       => top_events[i].idx < top_events[j].idx
        /\ \A k \in (1..Len(historical_events)) \ SelectedPlaces :
              \A i \in 1..Len(results) :
                 calculate_match_score(classified_headline, historical_events[k])
                     <= results[i].match_score

\* Two returned templates tie, and a template that scores above 0 is cut.
C7_Witness ==
    /\ pc = "matched"
    /\ Len(results) = top_n
    /\ Len(scored_events) > top_n
    /\ \E i, j \in 1..Len(results) :
          i < j /\ results[i].match_score = results[j].match_score

\* C8: the score given to every template is 0.5*[event_type equal] +
\* 0.3*[sentiment equal] + 0.2*[sector equal], so it is one of
\* {0, 0.2, 0.3, 0.5, 0.7, 0.8, 1.0}, and a template matching a superset of
\* another's criteria never scores lower.
C8_ScoreIsWeightedSum ==
    (pc = "matched" /\ historical_events # <<>>) =>
        /\ \A i \in 1..Len(historical_events) :
              LET m == MatchingCriteria(classified_headline, historical_events[i])
              IN /\ ScoreGiven(i) = (IF "event_type" \in m THEN 5 ELSE 0)
                                  + (IF "sentiment" \in m THEN 3 ELSE 0)
                                  + (IF "sector" \in m THEN 2 ELSE 0)
                 /\ ScoreGiven(i) \in {0, 2, 3, 5, 7, 8, 10}
        /\ \A i, j \in 1..Len(historical_events) :
              MatchingCriteria(classified_headline, historical_events[j])
                 \subseteq MatchingCriteria(classified_headline, historical_events[i])
              => ScoreGiven(i) >= ScoreGiven(j)

\* One store holding a template matched on two criteria, one on all three
\* and one on none.
C8_Witness ==
    /\ pc = "matched"
    /\ \E i, j, k \in 1..Len(historical_events) :
          ScoreGiven(i) = 8 /\ ScoreGiven(j) = 10 /\ ScoreGiven(k) = 0

\* A required categorical field is absent or null.
LacksCategorical(r) == \E c \in Categorical : Get(r[c], NoVal) = NoVal

\* C9: a template or event lacking event_type, sentiment or sector never
\* appears in the output of the Match Scorer.
C9_MalformedSkipped ==
    (pc = "matched") =>
        \A i \in 1..Len(top_events) :
            /\ ~LacksCategorical(historical_events[top_events[i].idx])
            /\ ~LacksCategorical(classified_headline)

----------------------------------------------------------------------------
(* Trade Decision Engine.  A current price and a strike are in tenths of   *)
(* a currency unit; an expiry is its number of days from today.            *)

\* str.lower() of the sentiment labels.
Lower(str) ==
    CASE str = "Bullish" -> "bullish"
      [] str = "Bearish" -> "bearish"
      [] str = "Neutral" -> "neutral"
      [] OTHER -> str

\* bool(x) of a string-or-None value.
Truthy(v) == v # Missing /\ v # NoVal /\ v # ""

\* abs() of a value of the match: a TypeError on a marker string.
AbsRaises(v) == ~v.isnum

\* The sort key of a match: (abs(price_change_pct), match_score).
KeyAtLeast(a, b) ==
    \/ Abs(a.price_change_pct.num) > Abs(b.price_change_pct.num)
    \/ /\ Abs(a.price_change_pct.num) = Abs(b.price_change_pct.num)
       /\ a.match_score >= b.match_score

\* sorted(historical_matches, key=..., reverse=True)[0]: the first match
\* whose key no other match exceeds.
TopMatchIndex(matches) ==
    CHOOSE i \in 1..Len(matches) :
        /\ \A j \in 1..Len(matches) : KeyAtLeast(matches[i], matches[j])
        /\ \A j \in 1..(i - 1) : ~KeyAtLeast(matches[j], matches[i])

\* The yield-curve check on the macro snapshot.
inverted_curve(headline) ==
    /\ headline.Treasury2Y # 0
    /\ headline.Treasury10Y # 0
    /\ headline.Treasury2Y > headline.Treasury10Y

\* Option type from the historical price change (3.0 % is 300).
OptionType(price_change_pct) ==
    IF price_change_pct < 0 /\ Abs(price_change_pct) > 300 THEN "PUT" ELSE "CALL"

\* The direction after line 212: the classifier's BUY/SELL, else BUY.
InitialDirection(llm_direction) ==
    IF Truthy(llm_direction) /\ llm_direction \in {"BUY", "SELL"} THEN llm_direction ELSE "BUY"

\* A decision that tests the option default before the bearish rule.
Decide_PutBeforeBearish(headline, price_change_pct, max_drawdown_pct) ==
    LET sentiment == Lower(Get(headline.sentiment, ""))
        llm_direction == headline.direction
    IN IF sentiment = "bullish" /\ max_drawdown_pct < 200
       THEN [trade_type |-> "equity",
             direction |-> IF ~Truthy(llm_direction) \/ llm_direction # "SELL"
                           THEN "BUY" ELSE InitialDirection(llm_direction),
             option_type |-> OptionType(price_change_pct),
             rationale_addition |-> "equity BUY"]
       ELSE IF OptionType(price_change_pct) = "PUT"
       THEN [trade_type |-> "option", direction |-> InitialDirection(llm_direction),
             option_type |-> "PUT", rationale_addition |-> "PUT"]
       ELSE IF sentiment = "bearish"
               /\ (headline.is_cpi_week \/ inverted_curve(headline) \/ headline.surprise_positive)
       THEN [trade_type |-> "equity",
             direction |-> IF ~Truthy(llm_direction) \/ llm_direction # "BUY"
                           THEN "SELL" ELSE InitialDirection(llm_direction),
             option_type |-> OptionType(price_change_pct),
             rationale_addition |-> "equity SELL"]
       ELSE [trade_type |-> "option", direction |-> InitialDirection(llm_direction),
             option_type |-> "CALL", rationale_addition |-> "CALL"]

\* Lines 205-257: trade_type, direction and option_type.  max_drawdown_pct is
\* the magnitude abs(...) already taken (2.0 % is 200).
Decide(headline, price_change_pct, max_drawdown_pct) ==
    LET sentiment == Lower(Get(headline.sentiment, ""))
        llm_direction == headline.direction
        direction == InitialDirection(llm_direction)
        option_type == OptionType(price_change_pct)
    IN IF sentiment = "bullish" /\ max_drawdown_pct < 200
       THEN [trade_type |-> "equity",
             direction |-> IF ~Truthy(llm_direction) \/ llm_direction # "SELL"
                           THEN "BUY" ELSE direction,
             option_type |-> option_type,
             rationale_addition |-> IF ~Truthy(llm_direction) \/ llm_direction # "SELL"
                                    THEN "equity BUY" ELSE "LLM SELL"]
       ELSE IF sentiment = "bearish"
               /\ (headline.is_cpi_week \/ inverted_curve(headline) \/ headline.surprise_positive)
       THEN [trade_type |-> "equity",
             direction |-> IF ~Truthy(llm_direction) \/ llm_direction # "BUY"
                           THEN "SELL" ELSE direction,
             option_type |-> option_type,
             rationale_addition |-> IF ~Truthy(llm_direction) \/ llm_direction # "BUY"
                                    THEN "equity SELL" ELSE "LLM BUY"]
       ELSE [trade_type |-> "option", direction |-> direction,
             option_type |-> option_type,
             rationale_addition |-> option_type]

\* get_next_friday: days from today (weekday 0 is Monday) to the next Friday.
get_next_friday(weekday) ==
    LET days_ahead == 4 - weekday
    IN IF days_ahead <= 0 THEN days_ahead + 7 ELSE days_ahead

\* A selection that takes the last expiry of the window.
select_expiry_date_LatestInWindow(expiry_dates, min_days, max_days, weekday) ==
    IF expiry_dates = <<>> THEN get_next_friday(weekday)
    ELSE LET valid == SelectSeq(expiry_dates, LAMBDA d : min_days <= d /\ d <= max_days)
         IN IF valid # <<>> THEN valid[Len(valid)] ELSE expiry_dates[1]

\* select_expiry_date: the listed expiries are given by their days to expiry,
\* in the provider's order.
select_expiry_date(expiry_dates, min_days, max_days, weekday) ==
    IF expiry_dates = <<>> THEN get_next_friday(weekday)
    ELSE LET valid == SelectSeq(expiry_dates, LAMBDA d : min_days <= d /\ d <= max_days)
         IN IF valid # <<>>
            THEN CHOOSE d \in {valid[i] : i \in 1..Len(valid)} :
                     \A i \in 1..Len(valid) : d <= valid[i]
            ELSE expiry_dates[1]

\* round(n / d) for n >= 0, d > 0: Python rounds a half to the even neighbour.
RoundHalfEven(n, d) ==
    LET q == n \div d
        r == n % d
    IN IF 2 * r < d THEN q
       ELSE IF 2 * r > d THEN q + 1
       ELSE IF q % 2 = 0 THEN q ELSE q + 1

\* select_strike_price.  otm_pct = min(abs(price_change_pct) * 0.3, 5.0) is
\* kept in thousandths of a percent: 3 * |hundredths|, capped at 5000.
select_strike_price(current_price, option_type, price_change_pct) ==
    LET otm == Min(3 * Abs(price_change_pct), 5000)
        factor == IF option_type = "PUT" THEN 100000 - otm ELSE 100000 + otm
    IN IF current_price < 1000
       THEN 5 * RoundHalfEven(2 * current_price * factor, 1000000)
       ELSE 10 * RoundHalfEven(current_price * factor, 1000000)

TradeRaised ==
    [raised |-> TRUE, ticker |-> NoVal, trade_type |-> "", direction |-> "",
     option_type |-> NoVal, strike |-> Str(NoVal), expiry |-> Str(NoVal), rationale |-> "",
     calls |-> <<>>]

\* A price test that lets a price of 0.0 through.
PriceUnavailable_NegativeOnly(current_price) == current_price < 0

\* Line 262: fetch_current_price answered 0.0 (its failure value).
PriceUnavailable(current_price) == current_price <= 0

\* generate_trade_idea.  q is what the provider answers for the ticker:
\* fetch_current_price (0 when it cannot be had), the expiries of
\* fetch_option_data, and today's weekday.  calls lists the provider
\* functions the run called; it is not a key of the returned dict.
generate_trade_idea(headline, matches, q) ==
    IF matches = <<>>
    THEN [raised |-> FALSE, ticker |-> NoVal, trade_type |-> "option", direction |-> "BUY",
          option_type |-> NoVal, strike |-> Str(NoVal), expiry |-> Str(NoVal),
          rationale |-> "No historical matches found to base trade on.",
          calls |-> <<>>]
    ELSE IF \E i \in 1..Len(matches) : AbsRaises(matches[i].price_change_pct)
    THEN TradeRaised                                     \* TypeError in the sort key
    ELSE LET top_match == matches[TopMatchIndex(matches)]
             ticker == Get(top_match.affected_ticker, "SPY")
             price_change_pct == top_match.price_change_pct.num
         IN IF AbsRaises(top_match.max_drawdown_pct) THEN TradeRaised
            ELSE IF headline.sentiment = NoVal THEN TradeRaised   \* None.lower()
            ELSE LET d == Decide(headline, price_change_pct,
                                 Abs(top_match.max_drawdown_pct.num))
                     shown_option_type ==
                         IF d.trade_type = "option" THEN d.option_type ELSE NoVal
                 IN IF PriceUnavailable(q.current_price)
                    THEN [raised |-> FALSE, ticker |-> ticker,
                          trade_type |-> d.trade_type, direction |-> d.direction,
                          option_type |-> shown_option_type,
                          strike |-> Str(NoVal), expiry |-> Str(NoVal),
                          rationale |-> "Could not fetch current price",
                          calls |-> <<"fetch_current_price">>]
                    ELSE [raised |-> FALSE, ticker |-> ticker,
                          trade_type |-> d.trade_type, direction |-> d.direction,
                          option_type |-> shown_option_type,
                          strike |-> IF d.trade_type = "option"
                                     THEN Num(select_strike_price(q.current_price,
                                                  d.option_type, price_change_pct))
                                     ELSE Str(NoVal),
                          expiry |-> IF d.trade_type = "option"
                                     THEN Num(select_expiry_date(q.expiry_dates, 7, 30, q.weekday))
                                     ELSE Str(NoVal),
                          rationale |-> d.rationale_addition,
                          calls |-> IF d.trade_type = "option"
                                    THEN <<"fetch_current_price", "fetch_option_data">>
                                    ELSE <<"fetch_current_price">>]

(* The inputs of the Trade Decision Engine *)

Match(pct, dd, score) ==
    [event_summary |-> "match", match_score |-> score, affected_ticker |-> "SPY",
     price_change_pct |-> pct, max_drawdown_pct |-> dd]

\* Matches as match_similar_events returns them: numeric impact, or both
\* impact fields carrying a marker.
MatchPool ==
    { Match(Num(-400), Num(-100), 8), Match(Num(-400), Num(-200), 8),
      Match(Num(-300), Num(-100), 8), Match(Num(250), Num(-200), 8),
      Match(Num(100), Num(-50), 10),
      Match(NA, NA, 8), Match(NAProcessingError, NAProcessingError, 5) }

TradeHeadlines ==
    { TaggedHeadline("Monetary Policy", se, "Financials", cpi, sp, y[1], y[2], dir) :
        se \in {"Bullish", "Bearish", "Neutral"},
        cpi \in BOOLEAN, sp \in BOOLEAN,
        y \in {<<0, 0>>, <<41, 48>>, <<48, 41>>},
        dir \in {Missing, "BUY", "SELL"} }

Quotes ==
    { [current_price |-> 0, expiry_dates |-> <<>>, weekday |-> 0],
      [current_price |-> 503, expiry_dates |-> <<>>, weekday |-> 4],
      [current_price |-> 2300, expiry_dates |-> <<3, 10, 40>>, weekday |-> 2] }

InitTrade ==
    /\ IdleImpact
    /\ IdleServices
    /\ IdleEval
    /\ IdleSelect
    /\ IdleMacro
    /\ IdlePattern
    /\ IdleStore
    /\ classified_headline \in TradeHeadlines
    /\ historical_matches = <<>>
    /\ quote \in Quotes
    /\ trade_idea = NoTradeIdea
    /\ pc = "collect"

\* The caller's match list holds one more match.
MatchFound ==
    /\ pc = "collect"
    /\ Len(historical_matches) < MaxMatches
    /\ \E m \in MatchPool : historical_matches' = Append(historical_matches, m)
    /\ UNCHANGED <<impactVars, serviceVars, evalVars, selectVars, macroVars, patternVars, matcherVars, quote, trade_idea, pc>>

GenerateTradeIdea ==
    /\ pc = "collect"
    /\ trade_idea' = generate_trade_idea(classified_headline, historical_matches, quote)
    /\ pc' = "traded"
    /\ UNCHANGED <<impactVars, serviceVars, evalVars, selectVars, macroVars, patternVars, matcherVars, historical_matches, quote>>

NextTrade == MatchFound \/ GenerateTradeIdea

SpecTrade == InitTrade /\ [][NextTrade]_vars

(* The pipeline Match Scorer -> Trade Decision Engine: generate_trade_idea  *)
(* runs on what match_similar_events returned.                              *)

TradeOnResults ==
    /\ pc = "matched"
    /\ historical_matches' = results
    /\ \E q \in Quotes :
          /\ quote' = q
          /\ trade_idea' = generate_trade_idea(classified_headline, results, q)
    /\ pc' = "traded"
    /\ UNCHANGED <<impactVars, serviceVars, evalVars, selectVars, macroVars, patternVars, matcherVars>>

NextPipeline == TemplateStored \/ MatchSimilarEvents \/ TradeOnResults

SpecPipeline == InitMatcher /\ [][NextPipeline]_vars

(* Claims about the Trade Decision Engine *)

TheTopMatch == historical_matches[TopMatchIndex(historical_matches)]

\* The triple the engine emitted.
Emitted == <<trade_idea.trade_type, trade_idea.direction, trade_idea.option_type>>

BullishLowDrawdown ==
    /\ classified_headline.sentiment = "Bullish"
    /\ Abs(TheTopMatch.max_drawdown_pct.num) < 200

BearishWithRisk ==
    /\ classified_headline.sentiment = "Bearish"
    /\ \/ classified_headline.is_cpi_week
       \/ classified_headline.surprise_positive
       \/ /\ classified_headline.Treasury10Y # 0
          /\ classified_headline.Treasury2Y > classified_headline.Treasury10Y

Decided == pc = "traded" /\ historical_matches # <<>> /\ ~trade_idea.raised

\* C1: with no external direction, the engine emits (equity, BUY, null) for
\* Bullish sentiment and a top-match drawdown magnitude below 2.0; else
\* (equity, SELL, null) for Bearish sentiment with CPI week, inverted curve
\* or positive surprise; else (option, BUY, PUT) when the price change is
\* below -3.0, and (option, BUY, CALL) otherwise.
C1_DecisionProcedure ==
    (Decided /\ classified_headline.direction = Missing) =>
        Emitted =
            IF BullishLowDrawdown THEN <<"equity", "BUY", NoVal>>
            ELSE IF BearishWithRisk THEN <<"equity", "SELL", NoVal>>
            ELSE IF TheTopMatch.price_change_pct.num < -300 THEN <<"option", "BUY", "PUT">>
            ELSE <<"option", "BUY", "CALL">>

\* Scenario C: Bearish, CPI week, top match at -4.0 %: equity/SELL.
C1_Witness ==
    /\ Decided
    /\ classified_headline.direction = Missing
    /\ classified_headline.sentiment = "Bearish"
    /\ classified_headline.is_cpi_week
    /\ ~classified_headline.surprise_positive
    /\ classified_headline.Treasury2Y = 0
    /\ TheTopMatch.price_change_pct = Num(-400)
    /\ Emitted = <<"equity", "SELL", NoVal>>

\* C2: with an external BUY/SELL direction, the rule-based direction is
\* emitted where a rule of steps 2-3 fires (BUY for Bullish with low
\* drawdown, SELL for Bearish with a risk flag), and the external direction
\* is emitted unchanged where none fires.
C2_RuleBeatsExternalDirection ==
    (Decided /\ classified_headline.direction \in {"BUY", "SELL"}) =>
        trade_idea.direction =
            IF BullishLowDrawdown THEN "BUY"
            ELSE IF BearishWithRisk THEN "SELL"
            ELSE classified_headline.direction

\* C3: generate_trade_idea returns a TradeIdea for every match list
\* match_similar_events returns; it never raises.
C3_PipelineNeverRaises ==
    (pc = "traded") => ~trade_idea.raised

NumericMatches(matches) ==
    \A i \in 1..Len(matches) :
        matches[i].price_change_pct.isnum /\ matches[i].max_drawdown_pct.isnum

\* The non-empty match lists the engine may be handed.
MatchLists == UNION { [1..n -> MatchPool] : n \in 1..MaxMatches }

Triple(idea) == <<idea.trade_type, idea.direction, idea.option_type>>

\* C15: two runs of generate_trade_idea that agree on sentiment, the event
\* tags, the inversion of the yield curve and the top match's price change
\* and drawdown emit the same (trade_type, direction, option_type), whatever
\* the external direction, the other matches, the current price and the
\* listed expiries are.
C15_DecisionDeterminism ==
    Decided =>
        \A h \in TradeHeadlines, ms \in MatchLists, q \in Quotes :
            LET other == generate_trade_idea(h, ms, q)
                top == ms[TopMatchIndex(ms)]
            IN (/\ NumericMatches(ms)
                /\ h.sentiment = classified_headline.sentiment
                /\ h.is_cpi_week = classified_headline.is_cpi_week
                /\ h.surprise_positive = classified_headline.surprise_positive
                /\ inverted_curve(h) = inverted_curve(classified_headline)
                /\ top.price_change_pct = TheTopMatch.price_change_pct
                /\ top.max_drawdown_pct = TheTopMatch.max_drawdown_pct)
               => Triple(other) = Emitted

\* C16: the trade idea is the one derived from the match with the highest
\* match_score of the list; a lower-scored match is never used in its place.
C16_TopMatchByScore ==
    Decided =>
        \E i \in 1..Len(historical_matches) :
            /\ \A j \in 1..Len(historical_matches) :
                  historical_matches[j].match_score <= historical_matches[i].match_score
            /\ trade_idea =
                  generate_trade_idea(classified_headline, <<historical_matches[i]>>, quote)

\* C17: when fetch_current_price yields no positive price, generate_trade_idea
\* returns a TradeIdea with null strike and expiry and the rationale that the
\* price could not be fetched, with the trade_type and direction of the
\* decision procedure, and fetch_option_data is not called.
C17_FailsClosedWithoutPrice ==
    (pc = "traded" /\ historical_matches # <<>> /\ NumericMatches(historical_matches)
        /\ quote.current_price <= 0) =>
        LET d == Decide(classified_headline, TheTopMatch.price_change_pct.num,
                        Abs(TheTopMatch.max_drawdown_pct.num))
        IN /\ ~trade_idea.raised
           /\ trade_idea.strike = Str(NoVal)
           /\ trade_idea.expiry = Str(NoVal)
           /\ trade_idea.rationale = "Could not fetch current price"
           /\ trade_idea.trade_type = d.trade_type
           /\ trade_idea.direction = d.direction
           /\ \A k \in 1..Len(trade_idea.calls) : trade_idea.calls[k] # "fetch_option_data"

\* An option trade was decided and the price could not be fetched.
C17_Witness ==
    /\ Decided
    /\ quote.current_price = 0
    /\ trade_idea.trade_type = "option"
    /\ trade_idea.option_type = "PUT"
    /\ trade_idea.calls = <<"fetch_current_price">>

----------------------------------------------------------------------------
(* Strike and expiry selection on their own.  Prices and strikes are in    *)
(* tenths of a currency unit, expiries in days from today.                 *)

\* Price changes handed to select_strike_price, in hundredths of a percent.
PriceChanges == {-2000, -310, -100, -10, 0, 10, 150, 2000}

InitStrike ==
    /\ IdleImpact
    /\ IdleServices
    /\ IdleEval
    /\ IdleMacro
    /\ IdlePattern
    /\ IdleMatcher
    /\ IdleTrade
    /\ strike_args \in [current_price : 1..MaxPrice, option_type : {"PUT", "CALL"},
                        price_change_pct : PriceChanges]
    /\ selected_strike = 0
    /\ expiry_args = NoExpiryArgs
    /\ selected_expiry = 0
    /\ pc = "select"

SelectStrikePrice ==
    /\ pc = "select"
    /\ selected_strike' = select_strike_price(strike_args.current_price,
                              strike_args.option_type, strike_args.price_change_pct)
    /\ pc' = "strike selected"
    /\ UNCHANGED <<impactVars, serviceVars, evalVars, macroVars, patternVars, matcherVars, tradeVars,
                   strike_args, expiry_args, selected_expiry>>

NextStrike == SelectStrikePrice

SpecStrike == InitStrike /\ [][NextStrike]_vars

\* Days to expiry the provider may list, in chronological order.
ExpiryDays == {0, 3, 7, 10, 30, 40}

Windows == {<<7, 30>>, <<1, 5>>}

InitExpiry ==
    /\ IdleImpact
    /\ IdleServices
    /\ IdleEval
    /\ IdleMacro
    /\ IdlePattern
    /\ IdleMatcher
    /\ IdleTrade
    /\ strike_args = NoStrikeArgs
    /\ selected_strike = 0
    /\ \E w \in Windows, wd \in 0..6 :
          expiry_args = [expiry_dates |-> <<>>, min_days |-> w[1], max_days |-> w[2],
                         weekday |-> wd]
    /\ selected_expiry = 0
    /\ pc = "select"

\* stock.options lists one more expiry, later than the ones before it.
ExpiryListed ==
    /\ pc = "select"
    /\ Len(expiry_args.expiry_dates) < MaxExpiries
    /\ \E d \in ExpiryDays :
          /\ \A i \in 1..Len(expiry_args.expiry_dates) : expiry_args.expiry_dates[i] < d
          /\ expiry_args' = [expiry_args EXCEPT !.expiry_dates = Append(@, d)]
    /\ UNCHANGED <<impactVars, serviceVars, evalVars, macroVars, patternVars, matcherVars, tradeVars,
                   strike_args, selected_strike, selected_expiry, pc>>

SelectExpiryDate ==
    /\ pc = "select"
    /\ selected_expiry' = select_expiry_date(expiry_args.expiry_dates, expiry_args.min_days,
                              expiry_args.max_days, expiry_args.weekday)
    /\ pc' = "expiry selected"
    /\ UNCHANGED <<impactVars, serviceVars, evalVars, macroVars, patternVars, matcherVars, tradeVars,
                   strike_args, selected_strike, expiry_args>>

NextExpiry == ExpiryListed \/ SelectExpiryDate

SpecExpiry == InitExpiry /\ [][NextExpiry]_vars

(* Claims about the selection *)

\* C18: for every current_price > 0 and every price_change_pct the strike
\* select_strike_price returns is not above current_price for a PUT and not
\* below it for a CALL, and lies within half a rounding step (0.5 below 100,
\* 1 otherwise) of current_price offset by min(|price_change_pct| * 0.3, 5.0)
\* percent.
C18_StrikeSide ==
    (pc = "strike selected") =>
        LET a == strike_args
            otm == Min(3 * Abs(a.price_change_pct), 5000)
            target == IF a.option_type = "PUT" THEN a.current_price * (100000 - otm)
                      ELSE a.current_price * (100000 + otm)
            half_step == IF a.current_price < 1000 THEN 250000 ELSE 500000
        IN /\ Abs(selected_strike * 100000 - target) <= half_step
           /\ a.option_type = "PUT" => selected_strike <= a.current_price
           /\ a.option_type = "CALL" => selected_strike >= a.current_price

\* C19: select_expiry_date returns the expiry with the fewest days among
\* those within [min_days, max_days] when there is one; else the earliest
\* listed expiry when expiries are listed; else the next Friday, strictly
\* after today and at most 7 days ahead.  For a non-empty list the result
\* is a member of it.
C19_ExpirySelection ==
    (pc = "expiry selected") =>
        LET a == expiry_args
            listed == { a.expiry_dates[i] : i \in 1..Len(a.expiry_dates) }
            window == { d \in listed : a.min_days <= d /\ d <= a.max_days }
        IN IF window # {}
           THEN selected_expiry \in window /\ \A d \in window : selected_expiry <= d
           ELSE IF listed # {}
           THEN selected_expiry \in listed /\ \A d \in listed : selected_expiry <= d
           ELSE /\ selected_expiry \in 1..7
                /\ (a.weekday + selected_expiry) % 7 = 4

\* Two listed expiries lie in the window, one before it, and the nearer of
\* the two was selected.
C19_Witness ==
    /\ pc = "expiry selected"
    /\ expiry_args.expiry_dates = <<3, 10, 30>>
    /\ expiry_args.min_days = 7
    /\ selected_expiry = 10

----------------------------------------------------------------------------
(* Pattern Aggregator *)

RECURSIVE SumSeq(_)
SumSeq(seq) ==
    IF seq = <<>> THEN 0
    ELSE IF Len(seq) = 1 THEN seq[1]
    ELSE LET half == Len(seq) \div 2
         IN SumSeq(SubSeq(seq, 1, half)) + SumSeq(SubSeq(seq, half + 1, Len(seq)))

\* round(n / d) for d > 0 and any n.
RoundDiv(n, d) == IF n >= 0 THEN RoundHalfEven(n, d) ELSE -RoundHalfEven(-n, d)

NoMacro ==
    [present |-> FALSE, CPI_YoY |-> Str(Missing), FedFundsRate |-> Str(Missing),
     Unemployment |-> Str(Missing), TenYearYield |-> Str(Missing),
     TwoYearYield |-> Str(Missing)]

NoSentiment == [present |-> FALSE, agreement |-> 0]

SimilarEvent(pct, dd, macro, senti) ==
    [price_change_pct |-> pct, max_drawdown_pct |-> dd, sector |-> "Financials",
     affected_ticker |-> "SPY", macro_data |-> macro, sentiment_analysis |-> senti]

\* isinstance(x, (int, float))
IsNumber(v) == v.isnum

\* Line 1128-1132: the event adds a macro data point.
CarriesMacro(event) ==
    /\ event.macro_data.present
    /\ event.price_change_pct # Str(NoVal)
    /\ \E k \in {"CPI_YoY", "FedFundsRate", "Unemployment", "TenYearYield"} :
          event.macro_data[k] # Str(Missing)

AnalysisFailure(msg) == [NoAnalysis EXCEPT !.success = FALSE, !.message = msg]

\* Lines 1225-1226.  calculate_macro_correlations catches its own errors and
\* returns; generate_macro_insights(correlations, macro_data_points) is then
\* called with one argument, which is a TypeError.
MacroAnalysisRaises(macro_data_points) == TRUE

\* The band read off the size of the average drawdown instead of its signed
\* value.
VolatilityBand_BySize(sum_dd, n_dd) ==
    LET size == IF sum_dd < 0 THEN -sum_dd ELSE sum_dd
        AvgDdAbove(t) == IF n_dd = 0 THEN 0 > t ELSE size > t * n_dd
    IN IF AvgDdAbove(1000) THEN " with significant volatility"
       ELSE IF AvgDdAbove(500) THEN " with moderate volatility"
       ELSE " with low volatility"

\* Lines 1200-1206: the suffix chosen from avg_drawdown = sum / n (0 for an
\* empty list), compared as a signed number.
VolatilityBand(sum_dd, n_dd) ==
    LET AvgDdAbove(t) == IF n_dd = 0 THEN 0 > t ELSE sum_dd > t * n_dd
    IN IF AvgDdAbove(1000) THEN " with significant volatility"
       ELSE IF AvgDdAbove(500) THEN " with moderate volatility"
       ELSE " with low volatility"

analyze_similar_events(events) ==
    IF events = <<>> THEN AnalysisFailure("No similar events found")
    ELSE
    LET total_events == Len(events)
        numeric == SelectSeq(events, LAMBDA e : IsNumber(e.price_change_pct))
        price_changes == [i \in 1..Len(numeric) |-> numeric[i].price_change_pct.num]
        withdd == SelectSeq(events, LAMBDA e : IsNumber(e.max_drawdown_pct))
        drawdowns == [i \in 1..Len(withdd) |-> withdd[i].max_drawdown_pct.num]
        bullish_count == Len(SelectSeq(price_changes, LAMBDA x : x > 0))
        bearish_count == Len(price_changes) - bullish_count
        macro_data_points == SelectSeq(events, CarriesMacro)
        events_with_macro == Len(macro_data_points)
        withsent == SelectSeq(events, LAMBDA e : e.sentiment_analysis.present)
        events_with_sentiment == Len(withsent)
        aligned == Len(SelectSeq(withsent, LAMBDA e : e.sentiment_analysis.agreement >= 70))
        sum_pc == SumSeq(price_changes)
        n_pc == Len(price_changes)
        sum_dd == SumSeq(drawdowns)
        n_dd == Len(drawdowns)
        \* avg > t, with avg = sum / n, or 0 when the list is empty
        AvgPcAbove(t) == IF n_pc = 0 THEN 0 > t ELSE sum_pc > t * n_pc
        majority == Max(bullish_count, bearish_count)
        pattern ==
            IF AvgPcAbove(500) THEN "Strong bullish trend"
            ELSE IF AvgPcAbove(100) THEN "Moderate bullish trend"
            ELSE IF AvgPcAbove(-100) THEN "Neutral or sideways movement"
            ELSE IF AvgPcAbove(-500) THEN "Moderate bearish trend"
            ELSE "Strong bearish trend"
        volatility == VolatilityBand(sum_dd, n_dd)
        base ==
            [success |-> TRUE, message |-> "",
             pattern |-> pattern, volatility |-> volatility,
             consistency_score |-> RoundHalfEven(majority * 100, total_events),
             avg_price_change |-> IF n_pc = 0 THEN 0 ELSE RoundDiv(sum_pc, n_pc),
             avg_max_drawdown |-> IF n_dd = 0 THEN 0 ELSE RoundDiv(sum_dd, n_dd),
             bullish_pct |-> RoundHalfEven(bullish_count * 100, total_events),
             bearish_pct |-> RoundHalfEven(bearish_count * 100, total_events),
             similar_events_count |-> total_events,
             has_macro_analysis |-> FALSE, events_with_macro |-> 0,
             has_sentiment_analysis |-> FALSE, events_with_sentiment |-> 0,
             sentiment_alignment_pct |-> 0]
    IN IF events_with_macro >= 3 /\ MacroAnalysisRaises(macro_data_points)
       THEN AnalysisFailure("Error analyzing similar events")
       ELSE IF events_with_sentiment >= 2
       THEN [base EXCEPT !.has_sentiment_analysis = TRUE,
                         !.events_with_sentiment = events_with_sentiment,
                         !.sentiment_alignment_pct =
                             RoundHalfEven(aligned * 100, events_with_sentiment)]
       ELSE base

(* The inputs of the Pattern Aggregator *)

FullMacro ==
    [present |-> TRUE, CPI_YoY |-> Num(350), FedFundsRate |-> Num(525),
     Unemployment |-> Num(380), TenYearYield |-> Num(432), TwoYearYield |-> Num(472)]

\* A macro_data dict holding none of the key metrics.
OtherMacro == [NoMacro EXCEPT !.present = TRUE]

SimilarPool ==
    { SimilarEvent(Num(300), Num(-100), FullMacro, NoSentiment),
      SimilarEvent(Num(400), Num(-600), FullMacro, [present |-> TRUE, agreement |-> 100]),
      SimilarEvent(Num(-100), Num(-1200), NoMacro, [present |-> TRUE, agreement |-> 50]),
      SimilarEvent(Num(200), Num(-300), OtherMacro, NoSentiment),
      SimilarEvent(Num(500), Num(0), NoMacro, NoSentiment),
      SimilarEvent(NA, NA, NoMacro, NoSentiment) }

InitPattern ==
    /\ IdleImpact
    /\ IdleServices
    /\ IdleEval
    /\ IdleSelect
    /\ IdleMacro
    /\ IdleMatcher
    /\ IdleTrade
    /\ similar_events = <<>>
    /\ analysis = NoAnalysis
    /\ pc = "gather"

\* The caller's list holds one more similar event.
SimilarEventFound ==
    /\ pc = "gather"
    /\ Len(similar_events) < MaxSimilar
    /\ \E e \in SimilarPool : similar_events' = Append(similar_events, e)
    /\ UNCHANGED <<impactVars, serviceVars, evalVars, selectVars, macroVars, matcherVars, tradeVars, analysis, pc>>

AnalyzeSimilarEvents ==
    /\ pc = "gather"
    /\ analysis' = analyze_similar_events(similar_events)
    /\ pc' = "aggregated"
    /\ UNCHANGED <<impactVars, serviceVars, evalVars, selectVars, macroVars, matcherVars, tradeVars, similar_events>>

NextPattern == SimilarEventFound \/ AnalyzeSimilarEvents

SpecPattern == InitPattern /\ [][NextPattern]_vars

(* The pipeline Match Scorer -> Pattern Aggregator: analyze_similar_events  *)
(* runs on what match_similar_events returned.                              *)

\* A result of the Match Scorer read as a similar event: it carries no
\* macro_data and no sentiment_analysis key.
AsSimilarEvent(result) ==
    SimilarEvent(result.price_change_pct, result.max_drawdown_pct, NoMacro, NoSentiment)

AnalyzeResults ==
    /\ pc = "matched"
    /\ similar_events' = [i \in 1..Len(results) |-> AsSimilarEvent(results[i])]
    /\ analysis' = analyze_similar_events(similar_events')
    /\ pc' = "aggregated"
    /\ UNCHANGED <<impactVars, serviceVars, evalVars, selectVars, macroVars, tradeVars,
                   matcherVars>>

NextMatchedPattern == TemplateStored \/ MatchSimilarEvents \/ AnalyzeResults

SpecMatchedPattern == InitMatcher /\ [][NextMatchedPattern]_vars

\* The drawdowns the aggregator averages.
Drawdowns(events) ==
    LET withdd == SelectSeq(events, LAMBDA e : IsNumber(e.max_drawdown_pct))
    IN [i \in 1..Len(withdd) |-> withdd[i].max_drawdown_pct.num]

\* C30: on the output of the Match Scorer every drawdown the aggregator
\* averages is <= 0, so their sum is never positive and the pattern summary
\* ends in ' with low volatility'; the significant and moderate bands are
\* never produced.
C30_AlwaysLowVolatility ==
    (pc = "aggregated" /\ analysis.success) =>
        /\ \A i \in 1..Len(Drawdowns(similar_events)) : Drawdowns(similar_events)[i] <= 0
        /\ SumSeq(Drawdowns(similar_events)) <= 0
        /\ analysis.volatility = " with low volatility"

\* A match whose price fell ten percent below its start was aggregated.
C30_Witness ==
    /\ pc = "aggregated"
    /\ analysis.success
    /\ \E i \in 1..Len(Drawdowns(similar_events)) : Drawdowns(similar_events)[i] <= -1000
    /\ analysis.volatility = " with low volatility"

(* Claims about the Pattern Aggregator *)

\* C4: for every non-empty list of matches analyze_similar_events returns
\* success=True with the pattern summary, whether or not the macro
\* correlation analysis (>= 3 matches with a macro snapshot) and the
\* sentiment alignment analysis (>= 2 matches with sentiment records) run.
C4_AnalysesAreAdditive ==
    (pc = "aggregated" /\ similar_events # <<>>) =>
        /\ analysis.success
        /\ analysis.pattern # ""
        /\ analysis.similar_events_count = Len(similar_events)

(* The Pattern Aggregator on a long list: matches that rose, then at most  *)
(* one match that fell.                                                    *)

RisingEvent == SimilarEvent(Num(500), Num(0), NoMacro, NoSentiment)
FallingEvent == SimilarEvent(Num(-100), Num(-1200), NoMacro, NoSentiment)

RisingEventFound ==
    /\ pc = "gather"
    /\ Len(similar_events) < MaxLong
    /\ \A i \in 1..Len(similar_events) : similar_events[i] = RisingEvent
    /\ similar_events' = Append(similar_events, RisingEvent)
    /\ UNCHANGED <<impactVars, serviceVars, evalVars, selectVars, macroVars, matcherVars, tradeVars, analysis, pc>>

FallingEventFound ==
    /\ pc = "gather"
    /\ Len(similar_events) < MaxLong
    /\ \A i \in 1..Len(similar_events) : similar_events[i] = RisingEvent
    /\ similar_events' = Append(similar_events, FallingEvent)
    /\ UNCHANGED <<impactVars, serviceVars, evalVars, selectVars, macroVars, matcherVars, tradeVars, analysis, pc>>

NextConsistency == RisingEventFound \/ FallingEventFound \/ AnalyzeSimilarEvents

SpecConsistency == InitPattern /\ [][NextConsistency]_vars

\* Every match has a numeric price change and all are on the same side:
\* all above zero, or none above zero (the side a zero move is counted on).
AllSameSign(events) ==
    /\ \A i \in 1..Len(events) : IsNumber(events[i].price_change_pct)
    /\ \/ \A i \in 1..Len(events) : events[i].price_change_pct.num > 0
       \/ \A i \in 1..Len(events) : events[i].price_change_pct.num <= 0

\* C13: for every non-empty list of matches the consistency_score that
\* analyze_similar_events returns lies in [0, 100] and is 100 if and only if
\* all matches share the same price-change sign.
C13_ConsistencyScore ==
    (pc = "aggregated" /\ similar_events # <<>> /\ analysis.success) =>
        /\ analysis.consistency_score \in 0..100
        /\ (analysis.consistency_score = 100 <=> AllSameSign(similar_events))

----------------------------------------------------------------------------
(* Correlation Engine.  A macro data point holds price_change (a number,   *)
(* "N/A" or None) and the four factors (a number in hundredths or None).   *)

MacroPoint(price_change, cpi, fed_rate, unemployment, yield_curve) ==
    [price_change |-> price_change, cpi |-> cpi, fed_rate |-> fed_rate,
     unemployment |-> unemployment, yield_curve |-> yield_curve]

None == Str(NoVal)

\* p['price_change'] is not None and p[factor] is not None
ValidPoints(points, factor) ==
    SelectSeq(points, LAMBDA p : p.price_change # None /\ p[factor] # None)

\* The Pearson coefficient is unchanged when every x and every y is divided
\* by a positive unit; the sums are taken in these units to stay small.
PriceUnit == 100
FactorUnit == 50

\* The entry of one factor with at least 3 valid points, all numeric.
\* correlation = numerator / denominator with denominator = radicand ** 0.5,
\* or 0 when the denominator is 0.
CorrelationOf(valid, factor) ==
    LET n == Len(valid)
        x_values == [i \in 1..n |-> valid[i].price_change.num \div PriceUnit]
        y_values == [i \in 1..n |-> valid[i][factor].num \div FactorUnit]
        sum_x == SumSeq(x_values)
        sum_y == SumSeq(y_values)
        sum_xy == SumSeq([i \in 1..n |-> x_values[i] * y_values[i]])
        sum_x2 == SumSeq([i \in 1..n |-> x_values[i] * x_values[i]])
        sum_y2 == SumSeq([i \in 1..n |-> y_values[i] * y_values[i]])
        numerator == n * sum_xy - sum_x * sum_y
        radicand == (n * sum_x2 - sum_x * sum_x) * (n * sum_y2 - sum_y * sum_y)
        sq == numerator * numerator
        positive == radicand # 0 /\ numerator > 0
        \* round(correlation, 2) is 0
        rounds_to_zero == radicand = 0 \/ sq <= (radicand - 1) \div 40000
    IN [correlation_sign |-> IF rounds_to_zero THEN 0
                             ELSE IF numerator > 0 THEN 1 ELSE -1,
        strength |-> IF radicand = 0 THEN "Negligible"
                     ELSE IF 100 * sq >= 49 * radicand THEN "Strong"
                     ELSE IF 4 * sq >= radicand THEN "Moderate"
                     ELSE IF 100 * sq >= 9 * radicand THEN "Weak"
                     ELSE "Negligible",
        sample_size |-> n,
        direction |-> IF positive THEN "Positive" ELSE "Negative"]

\* The loop over the factors inside the try: a price_change that is not a
\* number makes sum() raise, the except ends the loop and the entries
\* written so far are returned.
RECURSIVE CorrelationLoop(_, _, _)
CorrelationLoop(points, i, correlations) ==
    IF i > Len(Factors) THEN correlations
    ELSE LET factor == Factors[i]
             valid_points == ValidPoints(points, factor)
         IN IF Len(valid_points) >= 3
            THEN IF \E k \in 1..Len(valid_points) : ~IsNumber(valid_points[k].price_change)
                 THEN correlations
                 ELSE CorrelationLoop(points, i + 1,
                          [correlations EXCEPT ![factor] = CorrelationOf(valid_points, factor)])
            ELSE CorrelationLoop(points, i + 1, correlations)

calculate_macro_correlations(points) == CorrelationLoop(points, 1, NoCorrelations)

Insight(kind, factor) == [kind |-> kind, factor |-> factor]
ErrorInsight == Insight("error", "")

Significant(c) == c.strength \in {"Moderate", "Strong"}

\* One regime comparison: "raise", "insight" or "none".  Every point holds a
\* number for the factor when this is reached.
RegimeStep(points, factor, InHighBucket(_)) ==
    LET high == SelectSeq(points, LAMBDA p : InHighBucket(p[factor].num))
        low == SelectSeq(points, LAMBDA p : ~InHighBucket(p[factor].num))
        sum_high == SumSeq([i \in 1..Len(high) |-> high[i].price_change.num])
        sum_low == SumSeq([i \in 1..Len(low) |-> low[i].price_change.num])
    IN IF Len(high) >= 2 /\ Len(low) >= 2
       THEN IF \E k \in 1..Len(points) : ~IsNumber(points[k].price_change)
            THEN "raise"
            ELSE IF Abs(sum_high * Len(low) - sum_low * Len(high)) > 300 * Len(high) * Len(low)
                 THEN "insight" ELSE "none"
       ELSE "none"

AfterStep(insights, step, factor) ==
    IF step = "insight" THEN Append(insights, Insight("regime", factor)) ELSE insights

generate_macro_insights(correlations, points) ==
    IF ~\E i \in 1..Len(Factors) : Significant(correlations[Factors[i]])
    THEN <<Insight("no significant correlation", "")>>
    ELSE
    LET significant == SelectSeq(Factors, LAMBDA f : Significant(correlations[f]))
        insights0 == [i \in 1..Len(significant) |-> Insight("correlation", significant[i])]
        \* p.get(f, 0) > 3.0 on a point whose f is None
        ComparesNone(f) == \E k \in 1..Len(points) : points[k][f] = None
        inflation == RegimeStep(points, "cpi", LAMBDA v : v > 300)
        insights1 == AfterStep(insights0, inflation, "cpi")
        rates == RegimeStep(points, "fed_rate", LAMBDA v : v > 300)
        insights2 == AfterStep(insights1, rates, "fed_rate")
        curve == RegimeStep(points, "yield_curve", LAMBDA v : v < 0)
    IN IF Len(points) < 3 THEN insights0
       ELSE IF ComparesNone("cpi") \/ ComparesNone("fed_rate") THEN Append(insights0, ErrorInsight)
       ELSE IF inflation = "raise" THEN Append(insights0, ErrorInsight)
       ELSE IF rates = "raise" THEN Append(insights1, ErrorInsight)
       ELSE IF ComparesNone("yield_curve") THEN Append(insights2, ErrorInsight)
       ELSE IF curve = "raise" THEN Append(insights2, ErrorInsight)
       ELSE AfterStep(insights2, curve, "yield_curve")

(* The inputs of the Correlation Engine *)

PointPool ==
    { MacroPoint(Num(1000), Num(400), Num(500), Num(400), Num(-50)),
      MacroPoint(Num(0), Num(400), Num(500), Num(400), Num(-50)),
      MacroPoint(Num(0), Num(200), Num(100), Num(350), Num(50)),
      MacroPoint(Num(200), Num(200), Num(100), Num(350), Num(50)),
      MacroPoint(Num(-400), Num(200), Num(100), Num(350), Num(50)),
      MacroPoint(NA, Num(350), None, None, None),
      MacroPoint(Num(300), None, Num(500), None, None) }

InitMacro ==
    /\ IdleImpact
    /\ IdleServices
    /\ IdleEval
    /\ IdleSelect
    /\ IdleMatcher
    /\ IdleTrade
    /\ IdlePattern
    /\ IdleMacro
    /\ pc = "collect"

\* analyze_similar_events' loop adds one more macro data point.
MacroPointCollected ==
    /\ pc = "collect"
    /\ Len(data_points) < MaxPoints
    /\ \E p \in PointPool : data_points' = Append(data_points, p)
    /\ UNCHANGED <<impactVars, serviceVars, evalVars, selectVars, matcherVars, tradeVars, patternVars,
                   macro_correlations, macro_insights, pc>>

CalculateMacroCorrelations ==
    /\ pc = "collect"
    /\ macro_correlations' = calculate_macro_correlations(data_points)
    /\ pc' = "correlated"
    /\ UNCHANGED <<impactVars, serviceVars, evalVars, selectVars, matcherVars, tradeVars, patternVars,
                   data_points, macro_insights>>

GenerateMacroInsights ==
    /\ pc = "correlated"
    /\ macro_insights' = generate_macro_insights(macro_correlations, data_points)
    /\ pc' = "insights"
    /\ UNCHANGED <<impactVars, serviceVars, evalVars, selectVars, matcherVars, tradeVars, patternVars,
                   data_points, macro_correlations>>

NextMacro == MacroPointCollected \/ CalculateMacroCorrelations \/ GenerateMacroInsights

SpecMacro == InitMacro /\ [][NextMacro]_vars

(* Claims about the Correlation Engine *)

\* The points that hold a number for both price_change and the factor.
NumericPairs(points, factor) ==
    SelectSeq(points, LAMBDA p : IsNumber(p.price_change) /\ IsNumber(p[factor]))

\* C12: for every list of macro data points and every factor, the entry of
\* calculate_macro_correlations has strength 'None' and correlation 0 when
\* fewer than 3 points hold both price_change and the factor, and a strength
\* other than 'None' with sample_size the number of those points when 3 or
\* more do.
C12_CorrelationGuard ==
    (pc \in {"correlated", "insights"}) =>
        \A i \in 1..Len(Factors) :
            LET c == macro_correlations[Factors[i]]
                pairs == Len(NumericPairs(data_points, Factors[i]))
            IN IF pairs < 3
               THEN c.strength = "None" /\ c.correlation_sign = 0
               ELSE c.strength # "None" /\ c.sample_size = pairs

\* The regime buckets of a factor as the insight describes them: the points
\* that hold the factor, split at the threshold.
BucketsDiffer(points, factor, InHighBucket(_)) ==
    LET holding == SelectSeq(points, LAMBDA p : IsNumber(p[factor]))
        high == SelectSeq(holding, LAMBDA p : InHighBucket(p[factor].num))
        low == SelectSeq(holding, LAMBDA p : ~InHighBucket(p[factor].num))
        sum_high == SumSeq([i \in 1..Len(high) |-> high[i].price_change.num])
        sum_low == SumSeq([i \in 1..Len(low) |-> low[i].price_change.num])
    IN /\ Len(high) >= 2
       /\ Len(low) >= 2
       /\ Abs(sum_high * Len(low) - sum_low * Len(high)) > 300 * Len(high) * Len(low)

HasRegimeInsight(factor) ==
    \E k \in 1..Len(macro_insights) : macro_insights[k] = Insight("regime", factor)

\* C14: for points whose price changes are all numbers, generate_macro_insights
\* holds the regime insight of a thresholded factor (CPI > 3.0, fed rate > 3.0,
\* yield-curve spread < 0) exactly when each side of the threshold holds at
\* least 2 points and the bucket means differ by more than 3.0, whatever the
\* correlation strengths are; points without the factor are in neither bucket.
C14_RegimeInsights ==
    (pc = "insights" /\ \A k \in 1..Len(data_points) : IsNumber(data_points[k].price_change)) =>
        /\ HasRegimeInsight("cpi") <=> BucketsDiffer(data_points, "cpi", LAMBDA v : v > 300)
        /\ HasRegimeInsight("fed_rate") <=> BucketsDiffer(data_points, "fed_rate", LAMBDA v : v > 300)
        /\ HasRegimeInsight("yield_curve") <=> BucketsDiffer(data_points, "yield_curve", LAMBDA v : v < 0)

----------------------------------------------------------------------------
(* Trade Evaluator.  Rows are closes; the High column, max_gain_pct and    *)
(* the volatility notes that are derived from it are left out.             *)

\* str.upper on the option types a stored trade holds.
Upper(str) ==
    IF str = "call" THEN "CALL" ELSE IF str = "put" THEN "PUT" ELSE str

\* The sign of the unrounded price_change_pct: -1, 0 or 1.
MoveSign(closes) ==
    LET start_price == closes[1]
        end_price == closes[Len(closes)]
    IN IF end_price > start_price THEN 1 ELSE IF end_price < start_price THEN -1 ELSE 0

\* round(((a / b) - 1.0) * 100, 2), in hundredths of a percent.
RoundedPctChange(a, b) == RoundDiv((a - b) * 10000, b)

\* calculate_price_movement followed by the rounding of evaluate_trade:
\* <<sign of price_change_pct, round(price_change_pct, 2), round(max_drawdown_pct, 2)>>.
calculate_price_movement(closes) ==
    IF Len(closes) < 2 THEN <<0, 0, 0>>
    ELSE <<MoveSign(closes),
           RoundedPctChange(closes[Len(closes)], closes[1]),
           SetMin({ RoundedPctChange(closes[i], SetMax({ closes[j] : j \in 1..i }))
                    : i \in 1..Len(closes) })>>

\* determine_direction_correctness on the unrounded price change.
determine_direction_correctness(sign, option_type) ==
    IF Upper(option_type) = "CALL" THEN sign > 0
    ELSE IF Upper(option_type) = "PUT" THEN sign < 0
    ELSE FALSE

evaluate_trade(trade, rows, evaluation_days) ==
    LET ticker == Get(trade.ticker, NoVal)
        raw_option_type == Get(trade.option_type, "")
    IN IF raw_option_type = NoVal                        \* None.upper()
       THEN [InitialEvaluation EXCEPT !.notes = "Error evaluating trade"]
       ELSE LET option_type == Upper(raw_option_type)
            IN IF ticker = NoVal \/ ticker = ""
               THEN [InitialEvaluation EXCEPT
                        !.notes = "Could not evaluate trade - missing ticker symbol"]
               ELSE IF option_type \notin {"CALL", "PUT"}
               THEN [InitialEvaluation EXCEPT
                        !.notes = "Could not evaluate trade - invalid option type"]
               ELSE IF rows = <<>>
               THEN [InitialEvaluation EXCEPT
                        !.notes = "Could not evaluate trade - no data available"]
               ELSE LET head == IF Len(rows) > evaluation_days
                                THEN SubSeq(rows, 1, evaluation_days) ELSE rows
                        movement == calculate_price_movement(head)
                        direction_correct ==
                            determine_direction_correctness(movement[1], option_type)
                    IN [actual_move_pct |-> movement[2],
                        max_drawdown_pct |-> movement[3],
                        trade_direction_correct |-> direction_correct,
                        notes |-> IF direction_correct THEN "direction was correct"
                                  ELSE "direction was incorrect",
                        evaluation_period |-> Len(head)]

(* The inputs of the Trade Evaluator *)

StoredTrades ==
    { StoredTrade("SPY", "CALL"), StoredTrade("SPY", "PUT"), StoredTrade("SPY", "call"),
      StoredTrade("SPY", NoVal), StoredTrade(NoVal, "CALL") }

EvalCloses == {100, 105, 25000, 25001}

EvaluationDays == {2, DEFAULT_EVALUATION_DAYS}

InitEvaluate ==
    /\ IdleImpact
    /\ IdleServices
    /\ IdleMacro
    /\ IdleSelect
    /\ IdlePattern
    /\ IdleMatcher
    /\ IdleTrade
    /\ eval_trade \in StoredTrades
    /\ eval_df = <<>>
    /\ evaluation = InitialEvaluation
    /\ pc = "fetch"

EvalProviderReturnsRow ==
    /\ pc = "fetch"
    /\ Len(eval_df) < MaxEvalRows
    /\ \E c \in EvalCloses : eval_df' = Append(eval_df, c)
    /\ UNCHANGED <<impactVars, serviceVars, macroVars, selectVars, patternVars, matcherVars, tradeVars,
                   eval_trade, evaluation, pc>>

EvaluateTrade ==
    /\ pc = "fetch"
    /\ \E days \in EvaluationDays : evaluation' = evaluate_trade(eval_trade, eval_df, days)
    /\ pc' = "evaluated"
    /\ UNCHANGED <<impactVars, serviceVars, macroVars, selectVars, patternVars, matcherVars, tradeVars,
                   eval_trade, eval_df>>

NextEvaluate == EvalProviderReturnsRow \/ EvaluateTrade

SpecEvaluate == InitEvaluate /\ [][NextEvaluate]_vars

(* Claims about the Trade Evaluator *)

\* C20: in every evaluation evaluate_trade produces from price data,
\* trade_direction_correct is true exactly when the option type is CALL and
\* the reported actual_move_pct is above 0, or PUT and it is below 0; a CALL
\* with closes 100 then 105 gives actual_move_pct 5.0 and true.
C20_DirectionMatchesReportedMove ==
    (pc = "evaluated" /\ evaluation.evaluation_period > 0) =>
        /\ evaluation.trade_direction_correct <=>
              \/ Upper(eval_trade.option_type) = "CALL" /\ evaluation.actual_move_pct > 0
              \/ Upper(eval_trade.option_type) = "PUT" /\ evaluation.actual_move_pct < 0
        /\ (eval_trade.option_type = "CALL" /\ eval_df = <<100, 105>>) =>
              evaluation.actual_move_pct = 500 /\ evaluation.trade_direction_correct

----------------------------------------------------------------------------
(* The analysis pipeline at rest, for the specifications of the services
   around it *)

IdlePipeline ==
    /\ IdleImpact
    /\ IdleMatcher
    /\ IdleTrade
    /\ IdlePattern
    /\ IdleMacro
    /\ IdleSelect
    /\ IdleEval

----------------------------------------------------------------------------
(* Batch evaluation (src/evaluation_runner.py) *)

MaxTrades == 2        \* trades the input file may hold
MaxNow == 1           \* last day of the clock

\* A record of the input file.  saved_timestamp is Num(day) or Str(Missing).
HistoryTrade(saved_timestamp, ticker, option_type) ==
    [saved_timestamp |-> saved_timestamp, ticker |-> ticker, option_type |-> option_type]

\* A record of the output file: the trade with its evaluation.
EvaluatedTrade(trade, eval) == [trade |-> trade, evaluation |-> eval]

\* filter_future_trades: a trade without timestamp is taken as past.
IsFuture(trade, today) ==
    trade.saved_timestamp.isnum /\ trade.saved_timestamp.num > today

filter_future_trades(trades, today) ==
    SelectSeq(trades, LAMBDA trade : ~IsFuture(trade, today))

\* f"{trade.get('saved_timestamp', '')}-{trade.get('trade_idea', {}).get('ticker', '')}"
trade_id(trade) ==
    <<IF trade.saved_timestamp = Str(Missing) THEN Str("") ELSE trade.saved_timestamp,
      Get(trade.ticker, "")>>

\* load_existing_evaluations: the keys of the dictionary, and the value of a
\* key, which is the evaluation of the last record of the file with that id.
ExistingIds(file) == { trade_id(file[i].trade) : i \in 1..Len(file) }

ExistingEvaluation(file, id) ==
    file[SetMax({ i \in 1..Len(file) : trade_id(file[i].trade) = id })].evaluation

\* merge_evaluations: <<to_evaluate, already_evaluated>>.
merge_evaluations_IgnoresExisting(trades, file, forced) ==
    <<trades, <<>>>>

merge_evaluations(trades, file, forced) ==
    LET Known(trade) == ~forced /\ trade_id(trade) \in ExistingIds(file)
        known == SelectSeq(trades, Known)
    IN <<SelectSeq(trades, LAMBDA trade : ~Known(trade)),
         [i \in 1..Len(known) |->
             EvaluatedTrade(known[i], ExistingEvaluation(file, trade_id(known[i])))]>>

\* evaluate_trade_history: every trade handed in gets an evaluation.
evaluate_trade_history(trades, rows, evaluation_days) ==
    [i \in 1..Len(trades) |->
        EvaluatedTrade(trades[i], evaluate_trade(trades[i], rows, evaluation_days))]

\* run_evaluation: <<the output file afterwards, the trades evaluate_trade ran on>>.
run_evaluation(trades, file, today, rows, forced) ==
    LET past_trades == filter_future_trades(trades, today)
        merged == merge_evaluations(past_trades, file, forced)
        to_evaluate == merged[1]
        already_evaluated == merged[2]
        newly_evaluated == evaluate_trade_history(to_evaluate, rows, DEFAULT_EVALUATION_DAYS)
        all_evaluated_trades == already_evaluated \o newly_evaluated
    IN IF trades = <<>> \/ past_trades = <<>> THEN <<file, <<>>>>
       ELSE <<all_evaluated_trades, to_evaluate>>

\* calculate_success_rate; success_rate in hundredths of a percent.  The
\* option_type of every trade is upper-cased outside any try block.
calculate_success_rate(file) ==
    LET total_trades == Len(file)
        successful_trades ==
            Cardinality({ i \in 1..Len(file) : file[i].evaluation.trade_direction_correct })
    IN IF total_trades = 0 THEN NoMetrics
       ELSE IF \E i \in 1..Len(file) : file[i].trade.option_type = NoVal
       THEN [NoMetrics EXCEPT !.raised = TRUE]
       ELSE [raised |-> FALSE, total_trades |-> total_trades,
             successful_trades |-> successful_trades,
             success_rate |-> RoundDiv(successful_trades * 10000, total_trades)]

(* The inputs of the batch evaluation *)

\* The trades the pipeline may have stored: options on SPY, an equity trade
\* (option_type null), a trade without ticker, with and without timestamp.
HistoryTrades ==
    { HistoryTrade(Num(1), "SPY", "CALL"), HistoryTrade(Num(1), "SPY", "PUT"),
      HistoryTrade(Str(Missing), "SPY", "CALL"),
      HistoryTrade(Num(1), "SPY", NoVal), HistoryTrade(Num(1), NoVal, "CALL") }

\* What the provider returns for an evaluation window.
ProviderWindows == { <<>>, <<100, 105>>, <<105, 100>> }

InitBatch ==
    /\ IdlePipeline
    /\ IdleSessions
    /\ IdleRetry
    /\ IdlePersist
    /\ IdleMonitor
    /\ IdleBatch
    /\ pc = "idle"

\* The pipeline stores one more trade in the input file.
TradeStored ==
    /\ Len(trade_history) < MaxTrades
    /\ \E trade \in HistoryTrades : trade_history' = Append(trade_history, trade)
    /\ pc' = "stored"
    /\ UNCHANGED <<pipelineVars, sessionVars, retryVars, persistVars, monitorVars, evaluated_trades, now, provider_rows, evaluate_calls,
                   run_force, metrics>>

\* A day passes and the provider has other data.
DayPasses ==
    /\ now < MaxNow
    /\ now' = now + 1
    /\ provider_rows' \in ProviderWindows
    /\ pc' = "waited"
    /\ UNCHANGED <<pipelineVars, sessionVars, retryVars, persistVars, monitorVars, trade_history, evaluated_trades, evaluate_calls, run_force,
                   metrics>>

RunEvaluation ==
    /\ \E forced \in BOOLEAN :
          LET run == run_evaluation(trade_history, evaluated_trades, now, provider_rows,
                                    forced)
          IN /\ evaluated_trades' = run[1]
             /\ evaluate_calls' = run[2]
             /\ run_force' = forced
    /\ pc' = "ran"
    /\ UNCHANGED <<pipelineVars, sessionVars, retryVars, persistVars, monitorVars, trade_history, now, provider_rows, metrics>>

CalculateSuccessRate ==
    /\ pc = "ran"
    /\ metrics' = calculate_success_rate(evaluated_trades)
    /\ pc' = "metrics"
    /\ UNCHANGED <<pipelineVars, sessionVars, retryVars, persistVars, monitorVars, trade_history, evaluated_trades, now, provider_rows,
                   evaluate_calls, run_force>>

NextBatch == TradeStored \/ DayPasses \/ RunEvaluation \/ CalculateSuccessRate

SpecBatch == InitBatch /\ [][NextBatch]_vars

(* Claims about the batch evaluation *)

\* A trade evaluate_trade can score: it has a ticker and an option type.
Evaluable(trade) ==
    /\ Get(trade.ticker, NoVal) \notin {NoVal, ""}
    /\ Get(trade.option_type, NoVal) # NoVal

EvaluableRecords(file) == { i \in 1..Len(file) : Evaluable(file[i].trade) }

\* C21: a trade with a future timestamp, without ticker or with a null
\* option_type is not scored: no future trade is in the output, and
\* calculate_success_rate on the output returns metrics whose total_trades
\* (the denominator of success_rate) counts the evaluable trades only and
\* whose incorrect trades (total_trades - successful_trades) are evaluable
\* trades whose direction was wrong.
C21_UnevaluableNotScored ==
    /\ pc \in {"ran", "metrics"} =>
          \A i \in 1..Len(evaluated_trades) : ~IsFuture(evaluated_trades[i].trade, now)
    /\ pc = "metrics" =>
          /\ ~metrics.raised
          /\ metrics.total_trades = Cardinality(EvaluableRecords(evaluated_trades))
          /\ metrics.total_trades - metrics.successful_trades =
                Cardinality({ i \in EvaluableRecords(evaluated_trades) :
                                ~evaluated_trades[i].evaluation.trade_direction_correct })

\* The past trades of the input file at the time of a run.
PastTrades == filter_future_trades(trade_history, now)

Occurrences(seq, x) == Cardinality({ i \in 1..Len(seq) : seq[i] = x })

\* C22: a run without force leaves every record of the output file whose
\* trade is a past trade of the input exactly as it was, does not call
\* evaluate_trade for that trade, and the output holds each past trade as
\* often as the input does (once for a trade stored once).
C22_RunsAreIdempotent ==
    [][(pc' = "ran" /\ ~run_force') =>
          \A i \in 1..Len(evaluated_trades) :
              LET record == evaluated_trades[i]
              IN Occurrences(PastTrades, record.trade) > 0 =>
                    /\ Occurrences(evaluated_trades', record) > 0
                    /\ Occurrences(evaluate_calls', record.trade) = 0
                    /\ Occurrences([j \in 1..Len(evaluated_trades') |->
                                       evaluated_trades'[j].trade], record.trade)
                          = Occurrences(PastTrades, record.trade)]_vars

\* The records of the output file that share their id with no other record.
UniqueId(file, i) ==
    \A j \in 1..Len(file) : trade_id(file[j].trade) = trade_id(file[i].trade) => j = i

----------------------------------------------------------------------------
(* News monitor (src/news_monitor.py): the opportunity scans and the main loop *)

MAX_OPPORTUNITIES == 5

MaxClassified == 3    \* classified headlines that yield an opportunity

\* The scan threads the main loop starts, in this order.
ScanThreads == {1, 2}

\* The sort key of lines 247-250 and 259-262: priority, then -match_score.
PriorityRank(priority) ==
    IF priority = "high" THEN 0 ELSE IF priority = "medium" THEN 1 ELSE 2

KeyLeq(a, b) ==
    \/ PriorityRank(a.priority) < PriorityRank(b.priority)
    \/ /\ PriorityRank(a.priority) = PriorityRank(b.priority)
       /\ -a.match_score <= -b.match_score

\* sorted(): stable, so an opportunity goes behind those of the same key
\* that precede it in the list.
RECURSIVE InsertByKey(_, _)
InsertByKey(sorted, o) ==
    IF sorted = <<>> THEN <<o>>
    ELSE IF KeyLeq(sorted[1], o) THEN <<sorted[1]>> \o InsertByKey(Tail(sorted), o)
    ELSE <<o>> \o sorted

RECURSIVE SortOpportunities(_)
SortOpportunities(seq) ==
    IF seq = <<>> THEN <<>>
    ELSE InsertByKey(SortOpportunities(SubSeq(seq, 1, Len(seq) - 1)), seq[Len(seq)])

\* [:MAX_OPPORTUNITIES]
Cap_KeepsAll(seq) == seq

Cap(seq) ==
    IF Len(seq) > MAX_OPPORTUNITIES THEN SubSeq(seq, 1, MAX_OPPORTUNITIES) ELSE seq

\* Lines 244-264: the bucket a scan writes from what it found and what it read.
MergeOpportunities(found, bucket) ==
    Cap(SortOpportunities(SortOpportunities(found) \o bucket))

\* `with opportunity_lock:` is entered when no thread holds the lock.
LockFree_Always(lock) == TRUE

LockFree(lock) == lock = 0

\* generate_trade_opportunity: "high" takes a match_score of at least 0.8,
\* "medium" one of at least 0.6.  match_score in tenths.
OpportunityKinds ==
    { [priority |-> "high", match_score |-> 9],
      [priority |-> "medium", match_score |-> 7],
      [priority |-> "low", match_score |-> 5] }

Opportunity(kind, scan, headline) ==
    [priority |-> kind.priority, match_score |-> kind.match_score,
     scan |-> scan, headline |-> headline]

\* Where a thread is: at a place of scan_for_opportunities, merging a time frame.
At(place, frame) == [at |-> place, frame |-> frame]

InitMonitor ==
    /\ IdlePipeline
    /\ IdleSessions
    /\ IdleRetry
    /\ IdlePersist
    /\ IdleBatch
    /\ latest_headlines = <<>>
    /\ trading_opportunities = NoOpportunities
    /\ opportunity_lock = 0
    /\ scan_pc = [t \in ScanThreads |-> At("unstarted", 1)]
    /\ new_opportunities = [t \in ScanThreads |-> <<>>]
    /\ current = [t \in ScanThreads |-> <<>>]
    /\ main_pc = "loop"
    /\ scan_thread = 0
    /\ opportunities_file = NoFile
    /\ pc = "monitor"

\* interpret_headlines_async: one more headline of latest_headlines is
\* classified; matching it yields an opportunity of some kind.
HeadlineInterpreted ==
    /\ Len(latest_headlines) < MaxClassified
    /\ \E kind \in OpportunityKinds : latest_headlines' = Append(latest_headlines, kind)
    /\ UNCHANGED <<pipelineVars, sessionVars, retryVars, persistVars, batchVars, trading_opportunities, opportunity_lock,
                   scan_pc, new_opportunities, current, main_pc, scan_thread,
                   opportunities_file, pc>>

\* main, lines 456-461: the scan interval has passed and the loop starts a
\* daemon thread running scan_for_opportunities.
StartScanThread ==
    /\ main_pc = "loop"
    /\ scan_thread + 1 \in ScanThreads
    /\ scan_thread' = scan_thread + 1
    /\ scan_pc' = [scan_pc EXCEPT ![scan_thread + 1] = At("matching", 1)]
    /\ main_pc' = "started"
    /\ UNCHANGED <<pipelineVars, sessionVars, retryVars, persistVars, batchVars, latest_headlines, trading_opportunities, opportunity_lock,
                   new_opportunities, current, opportunities_file, pc>>

\* main, lines 463-464, with save_opportunities_to_file.
SaveOpportunitiesToFile ==
    /\ main_pc = "started"
    /\ opportunities_file' = [written |-> TRUE, contents |-> trading_opportunities]
    /\ main_pc' = "loop"
    /\ UNCHANGED <<pipelineVars, sessionVars, retryVars, persistVars, batchVars, latest_headlines, trading_opportunities, opportunity_lock,
                   scan_pc, new_opportunities, current, scan_thread, pc>>

\* scan_for_opportunities, lines 216-239: without classified headlines the
\* scan returns; otherwise it matches every headline and generates the
\* opportunities, the same for every time frame, holding no lock.
FindOpportunities(t) ==
    /\ scan_pc[t].at = "matching"
    /\ IF latest_headlines = <<>>
       THEN /\ scan_pc' = [scan_pc EXCEPT ![t] = At("done", 1)]
            /\ UNCHANGED new_opportunities
       ELSE /\ new_opportunities' =
                  [new_opportunities EXCEPT
                      ![t] = [i \in 1..Len(latest_headlines) |->
                                 Opportunity(latest_headlines[i], t, i)]]
            /\ scan_pc' = [scan_pc EXCEPT ![t] = At("acquire", 1)]
    /\ UNCHANGED <<pipelineVars, sessionVars, retryVars, persistVars, batchVars, latest_headlines, trading_opportunities, opportunity_lock,
                   current, main_pc, scan_thread, opportunities_file, pc>>

\* Line 242: with opportunity_lock.
AcquireLock(t) ==
    /\ scan_pc[t].at = "acquire"
    /\ LockFree(opportunity_lock)
    /\ opportunity_lock' = t
    /\ scan_pc' = [scan_pc EXCEPT ![t] = At("read", 1)]
    /\ UNCHANGED <<pipelineVars, sessionVars, retryVars, persistVars, batchVars, latest_headlines, trading_opportunities, new_opportunities,
                   current, main_pc, scan_thread, opportunities_file, pc>>

\* Line 254: current = trading_opportunities[time_frame].
ReadBucket(t) ==
    /\ scan_pc[t].at = "read"
    /\ current' = [current EXCEPT ![t] = trading_opportunities[TIME_FRAMES[scan_pc[t].frame]]]
    /\ scan_pc' = [scan_pc EXCEPT ![t] = At("write", scan_pc[t].frame)]
    /\ UNCHANGED <<pipelineVars, sessionVars, retryVars, persistVars, batchVars, latest_headlines, trading_opportunities, opportunity_lock,
                   new_opportunities, main_pc, scan_thread, opportunities_file, pc>>

\* Lines 255-266: trading_opportunities[time_frame] = merged; after the last
\* time frame the with block ends and the lock is released.
WriteBucket(t) ==
    /\ scan_pc[t].at = "write"
    /\ trading_opportunities' =
          [trading_opportunities EXCEPT
              ![TIME_FRAMES[scan_pc[t].frame]] =
                   MergeOpportunities(new_opportunities[t], current[t])]
    /\ IF scan_pc[t].frame < Len(TIME_FRAMES)
       THEN /\ scan_pc' = [scan_pc EXCEPT ![t] = At("read", scan_pc[t].frame + 1)]
            /\ UNCHANGED <<opportunity_lock, current>>
       ELSE /\ scan_pc' = [scan_pc EXCEPT ![t] = At("done", 1)]
            /\ opportunity_lock' = 0
            /\ current' = [current EXCEPT ![t] = <<>>]
    /\ UNCHANGED <<pipelineVars, sessionVars, retryVars, persistVars, batchVars, latest_headlines, new_opportunities, main_pc, scan_thread,
                   opportunities_file, pc>>

ScanForOpportunities ==
    \E t \in ScanThreads :
        FindOpportunities(t) \/ AcquireLock(t) \/ ReadBucket(t) \/ WriteBucket(t)

NextMonitor ==
    HeadlineInterpreted \/ StartScanThread \/ SaveOpportunitiesToFile \/ ScanForOpportunities

SpecMonitor == InitMonitor /\ [][NextMonitor]_vars

(* Claims about the news monitor *)

InCriticalSection(t) == scan_pc[t].at \in {"read", "write"}

\* The opportunities of the scans that have merged, as the bucket of a time
\* frame would hold them without the cap.
MergedScans == { t \in ScanThreads : scan_pc[t].at = "done" /\ new_opportunities[t] # <<>> }

InBucket(bucket, o) == \E i \in 1..Len(bucket) : bucket[i] = o

\* An opportunity is in the bucket, or MAX_OPPORTUNITIES entries ranking at
\* least as high are.
KeptOrOutranked(bucket, o) ==
    \/ InBucket(bucket, o)
    \/ /\ Len(bucket) = MAX_OPPORTUNITIES
       /\ \A i \in 1..Len(bucket) : KeyLeq(bucket[i], o)

\* C23: a thread reads or writes a bucket only while it holds
\* opportunity_lock, at most one thread does so at a time, a thread matching
\* headlines and generating trades does not hold the lock, the bucket a
\* thread writes is merged from the bucket as it is at that moment, and
\* every opportunity of a scan that has merged is in its bucket unless the
\* cap dropped it.
C23_MergeUnderLock ==
    /\ \A t \in ScanThreads :
          /\ InCriticalSection(t) => opportunity_lock = t
          /\ scan_pc[t].at \in {"matching", "acquire", "unstarted", "done"} =>
                opportunity_lock # t
          /\ scan_pc[t].at = "write" =>
                current[t] = trading_opportunities[TIME_FRAMES[scan_pc[t].frame]]
    /\ \A t, u \in ScanThreads : (InCriticalSection(t) /\ InCriticalSection(u)) => t = u
    /\ (\A t \in ScanThreads : ~InCriticalSection(t)) =>
          \A t \in MergedScans : \A i \in 1..Len(new_opportunities[t]) :
              \A f \in 1..Len(TIME_FRAMES) :
                  KeptOrOutranked(trading_opportunities[TIME_FRAMES[f]],
                                  new_opportunities[t][i])

\* Two scans have merged while both were running, and the bucket holds
\* opportunities of both.
C23_Witness ==
    /\ \A t \in ScanThreads : scan_pc[t].at = "done" /\ new_opportunities[t] # <<>>
    /\ \E i, j \in 1..Len(trading_opportunities["short"]) :
          /\ trading_opportunities["short"][i].scan = 1
          /\ trading_opportunities["short"][j].scan = 2

C26_SaveFollowsScan ==
    [][(main_pc = "started" /\ main_pc' = "loop") =>
          /\ scan_pc[scan_thread].at = "done"
          /\ \A f \in 1..Len(TIME_FRAMES) : \A i \in 1..Len(new_opportunities[scan_thread]) :
                KeptOrOutranked(opportunities_file'.contents[TIME_FRAMES[f]],
                                new_opportunities[scan_thread][i])]_vars

----------------------------------------------------------------------------
(* Trade persistence (src/trade_persistence.py) *)

MaxSaved == 3         \* records the trades file may hold

\* rec.get(key, default) on a record whose keys are its fields.
Field(rec, key, default) == IF key \in DOMAIN rec THEN rec[key] ELSE default

\* Lines 93-120: the record save_trade_data builds.  Strikes in tenths,
\* expiries in days from today.
trade_record(timestamp, headline, events, idea) ==
    [timestamp |-> timestamp,
     headline |-> [title |-> Field(headline, "title", ""),
                   event_type |-> Field(headline, "event_type", ""),
                   sentiment |-> Field(headline, "sentiment", "")],
     similar_events |-> [i \in 1..Len(events) |->
                            [event_summary |-> Field(events[i], "event_summary", ""),
                             match_score |-> Field(events[i], "match_score", 0)]],
     trade_idea |-> [ticker |-> Field(idea, "ticker", ""),
                     option_type |-> Field(idea, "option_type", ""),
                     strike |-> Field(idea, "strike", ""),
                     expiry |-> Field(idea, "expiry", ""),
                     rationale |-> Field(idea, "rationale", "")]]

\* save_trade: the record has its timestamp; the file is read, the record
\* appended and the file written.
save_trade(file, record) == Append(file, record)

\* The fields of a TradeIdea (spec 3).
TradeIdeaFields ==
    {"ticker", "trade_type", "direction", "option_type", "strike", "expiry", "rationale"}

\* What the trade engine emits: an option trade, an equity trade and the
\* idea of a headline without matches.
EmittedIdeas ==
    { TradeIdea("SPY", "option", "BULLISH", "CALL", Num(4400), Num(9), "rally"),
      TradeIdea("SPY", "option", "BEARISH", "PUT", Num(4300), Num(9), "selloff"),
      TradeIdea("SPY", "equity", "BEARISH", NoVal, Str(NoVal), Str(NoVal), "short"),
      TradeIdea(NoVal, "option", "NEUTRAL", NoVal, Str(NoVal), Str(NoVal), "no matches") }

PersistHeadlines ==
    { [title |-> "Fed raises rates", event_type |-> "Monetary Policy",
       sentiment |-> "Bearish"],
      [title |-> "Markets rally"] }

PersistEvents == { <<>>, <<[event_summary |-> "2022 hike", match_score |-> 8]>> }

InitPersist ==
    /\ IdlePipeline
    /\ IdleSessions
    /\ IdleRetry
    /\ IdleMonitor
    /\ IdleBatch
    /\ IdlePersist
    /\ pc = "idle"

SaveTradeData ==
    /\ Len(trades_file) < MaxSaved
    /\ \E idea \in EmittedIdeas, headline \in PersistHeadlines, events \in PersistEvents :
          /\ trades_file' = save_trade(trades_file,
                                trade_record(Len(trades_file) + 1, headline, events, idea))
          /\ saved_trade_idea' = idea
    /\ save_result' = TRUE
    /\ pc' = "saved"
    /\ UNCHANGED <<pipelineVars, sessionVars, retryVars, monitorVars, batchVars>>

NextPersist == SaveTradeData

SpecPersist == InitPersist /\ [][NextPersist]_vars

(* Claims about the trade persistence *)

\* C25: every save appends exactly one record and leaves the earlier
\* records as they were, and the trade_idea of the new record holds every
\* field of the TradeIdea handed in (ticker, trade_type, direction,
\* option_type, strike, expiry, rationale) with its value.
C25_RecordCarriesTradeIdea ==
    [][pc' = "saved" =>
          /\ Len(trades_file') = Len(trades_file) + 1
          /\ SubSeq(trades_file', 1, Len(trades_file)) = trades_file
          /\ \A key \in TradeIdeaFields :
                Field(trades_file'[Len(trades_file')].trade_idea, key, Missing)
                   = saved_trade_idea'[key]]_vars

----------------------------------------------------------------------------
(* The OpenAI call with retries (src/llm_event_query.py) *)

MaxRetriesArg == 4    \* largest max_retries the function is called with

\* What a call of the API does: it returns a response or raises an error
\* whose text holds 'rate limit', 'authentication', 'connection' or none
\* of these.
ApiOutcomes == {"response", "rate limit", "authentication", "connection", "other"}

\* The except block and the line after it: what one failed call adds to attempts.
AttemptsAfter(tries, error) ==
    IF error = "rate limit" THEN tries + 1
    ELSE IF error \in {"connection", "other"} THEN (tries + 1) + 1
    ELSE tries

InitRetry ==
    /\ IdlePipeline
    /\ IdleSessions
    /\ IdlePersist
    /\ IdleMonitor
    /\ IdleBatch
    /\ max_retries \in 0..MaxRetriesArg
    /\ attempts = 0
    /\ api_errors = <<>>
    /\ retry_result = "pending"
    /\ pc = "call"

\* One iteration of `while attempts < max_retries`.
CallOpenAI ==
    /\ retry_result = "pending"
    /\ attempts < max_retries
    /\ \E outcome \in ApiOutcomes :
          IF outcome = "response"
          THEN /\ retry_result' = "response"
               /\ UNCHANGED <<attempts, api_errors>>
          ELSE /\ api_errors' = Append(api_errors, outcome)
               /\ IF outcome = "authentication"
                  THEN retry_result' = "None" /\ UNCHANGED attempts
                  ELSE /\ attempts' = AttemptsAfter(attempts, outcome)
                       /\ UNCHANGED retry_result
    /\ pc' = "called"
    /\ UNCHANGED <<pipelineVars, sessionVars, persistVars, monitorVars, batchVars, max_retries>>

\* Lines 1538-1540: the loop ends without a response.
RetriesExhausted ==
    /\ retry_result = "pending"
    /\ attempts >= max_retries
    /\ retry_result' = "None"
    /\ pc' = "exhausted"
    /\ UNCHANGED <<pipelineVars, sessionVars, persistVars, monitorVars, batchVars, max_retries,
                   attempts, api_errors>>

NextRetry == CallOpenAI \/ RetriesExhausted

SpecRetry == InitRetry /\ [][NextRetry]_vars

(* Claims about the OpenAI call with retries *)

\* The calls of the API made so far: those that raised, and the one that
\* returned the response.
ApiCalls == Len(api_errors) + (IF retry_result = "response" THEN 1 ELSE 0)

\* C27: the function makes at most max_retries calls of the API; an
\* authentication error ends it with None at once; and when every call
\* fails with a rate-limit, connection or other error it returns None
\* after exactly max_retries calls.
C27_RetriesBounded ==
    /\ ApiCalls <= max_retries
    /\ (api_errors # <<>> /\ api_errors[Len(api_errors)] = "authentication") =>
          retry_result = "None"
    /\ \A i \in 1..Len(api_errors) :
          api_errors[i] = "authentication" => i = Len(api_errors)
    /\ (retry_result = "None"
          /\ \A i \in 1..Len(api_errors) : api_errors[i] # "authentication") =>
             ApiCalls = max_retries

----------------------------------------------------------------------------
(* Conversation sessions (src/llm_event_query.py) *)

MaxSessions == 2      \* session ids issued
MaxHours == 48        \* last hour of the clock
MaxQueries == 2       \* queries a session holds

DEFAULT_MAX_AGE_HOURS == 24

\* The clock advances by half the default max age, so that a session is
\* seen younger than, exactly as old as and older than max_age_hours.
HoursPerTick == 12

\* ConversationContext.__init__: a fresh id, no queries, created now.
ConversationContext(time) == [query_history |-> <<>>, creation_time |-> time]

\* clean_old_sessions: the age test of one session.
Expired_AtMaxAge(session, time, max_age_hours) ==
    time - session.creation_time >= max_age_hours

Expired(session, time, max_age_hours) ==
    time - session.creation_time > max_age_hours

\* clean_old_sessions: <<the sessions afterwards, the number removed>>.
clean_old_sessions(sessions, time, max_age_hours) ==
    LET expired_sessions ==
            { id \in DOMAIN sessions : Expired(sessions[id], time, max_age_hours) }
    IN <<[id \in DOMAIN sessions \ expired_sessions |-> sessions[id]],
         Cardinality(expired_sessions)>>

\* get_session with create_new_session: <<the sessions afterwards, the id
\* of the session returned>>.  fresh stands for uuid4.
get_session(sessions, session_id, fresh, time) ==
    IF session_id # 0 /\ session_id \in DOMAIN sessions
    THEN <<sessions, session_id>>
    ELSE <<[id \in DOMAIN sessions \cup {fresh} |->
               IF id = fresh THEN ConversationContext(time) ELSE sessions[id]],
           fresh>>

\* add_query
add_query(session, time) ==
    [session EXCEPT !.query_history = Append(session.query_history, time)]

InitSessions ==
    /\ IdlePipeline
    /\ IdleRetry
    /\ IdlePersist
    /\ IdleMonitor
    /\ IdleBatch
    /\ IdleSessions
    /\ pc = "idle"

HoursPass ==
    /\ session_clock + HoursPerTick <= MaxHours
    /\ session_clock' = session_clock + HoursPerTick
    /\ pc' = "waited"
    /\ UNCHANGED <<pipelineVars, retryVars, persistVars, monitorVars, batchVars,
                   CONVERSATION_SESSIONS, issued_sessions, requested_session,
                   answered_session, swept>>

\* process_query, lines 1895-1907: sweep, look the session up or create
\* one, add the query; the id of the session is returned with the response.
ProcessQuery ==
    /\ \E session_id \in 0..issued_sessions :
          LET cleaned == clean_old_sessions(CONVERSATION_SESSIONS, session_clock,
                                            DEFAULT_MAX_AGE_HOURS)
              got == get_session(cleaned[1], session_id, issued_sessions + 1,
                                 session_clock)
              sessions == got[1]
              session == got[2]
          IN /\ session <= MaxSessions
             /\ Len(sessions[session].query_history) < MaxQueries
             /\ CONVERSATION_SESSIONS' =
                   [sessions EXCEPT ![session] = add_query(sessions[session], session_clock)]
             /\ issued_sessions' = Max(issued_sessions, session)
             /\ requested_session' = session_id
             /\ answered_session' = session
             /\ swept' = [max_age_hours |-> DEFAULT_MAX_AGE_HOURS, expired |-> cleaned[2]]
    /\ pc' = "answered"
    /\ UNCHANGED <<pipelineVars, retryVars, persistVars, monitorVars, batchVars,
                   session_clock>>

\* clean_old_sessions called on its own, with any max_age_hours.
CleanOldSessions ==
    /\ \E max_age_hours \in {HoursPerTick, DEFAULT_MAX_AGE_HOURS} :
          LET cleaned == clean_old_sessions(CONVERSATION_SESSIONS, session_clock,
                                            max_age_hours)
          IN /\ CONVERSATION_SESSIONS' = cleaned[1]
             /\ swept' = [max_age_hours |-> max_age_hours, expired |-> cleaned[2]]
    /\ pc' = "cleaned"
    /\ UNCHANGED <<pipelineVars, retryVars, persistVars, monitorVars, batchVars,
                   session_clock, issued_sessions, requested_session, answered_session>>

NextSessions == HoursPass \/ ProcessQuery \/ CleanOldSessions

SpecSessions == InitSessions /\ [][NextSessions]_vars

(* Claims about the conversation sessions *)

\* The sessions created more than the swept max_age_hours before now.
CreatedBefore(max_age_hours) ==
    { id \in DOMAIN CONVERSATION_SESSIONS :
        CONVERSATION_SESSIONS[id].creation_time + max_age_hours < session_clock }

\* C28: a call of clean_old_sessions removes exactly the sessions created
\* more than max_age_hours ago, whenever they were last used, returns their
\* number and leaves every other session with its history as it was; and
\* process_query, handed the id of a session created more than 24 hours
\* ago, returns the id of a session that did not exist before, created now,
\* whose history holds the present query only.
C28_ExpiryByCreationTime ==
    [][/\ pc' = "cleaned" =>
             /\ DOMAIN CONVERSATION_SESSIONS'
                   = DOMAIN CONVERSATION_SESSIONS \ CreatedBefore(swept'.max_age_hours)
             /\ swept'.expired = Cardinality(CreatedBefore(swept'.max_age_hours))
             /\ \A id \in DOMAIN CONVERSATION_SESSIONS' :
                   CONVERSATION_SESSIONS'[id] = CONVERSATION_SESSIONS[id]
       /\ pc' = "answered" =>
             /\ swept'.expired = Cardinality(CreatedBefore(DEFAULT_MAX_AGE_HOURS))
             /\ \A id \in DOMAIN CONVERSATION_SESSIONS
                           \ (CreatedBefore(DEFAULT_MAX_AGE_HOURS) \cup {answered_session'}) :
                   /\ id \in DOMAIN CONVERSATION_SESSIONS'
                   /\ CONVERSATION_SESSIONS'[id] = CONVERSATION_SESSIONS[id]
             /\ requested_session' \in CreatedBefore(DEFAULT_MAX_AGE_HOURS) =>
                   /\ answered_session' # requested_session'
                   /\ answered_session' \notin DOMAIN CONVERSATION_SESSIONS
                   /\ requested_session' \notin DOMAIN CONVERSATION_SESSIONS'
                   /\ CONVERSATION_SESSIONS'[answered_session'] =
                         [query_history |-> <<session_clock>>,
                          creation_time |-> session_clock]]_vars

\* A follow-up carried the id of a session created more than 24 hours ago,
\* which the sweep removed, and was answered in a new session.
C28_Witness ==
    /\ pc = "answered"
    /\ requested_session # 0
    /\ answered_session # requested_session
    /\ swept.expired > 0
    /\ requested_session \notin DOMAIN CONVERSATION_SESSIONS

====
